---- MODULE Spec2Model ----
(***************************************************************************)
(* Vanishing ("Infinite") Tic Tac Toe.                                     *)
(*                                                                         *)
(* The repository holds two engines:                                       *)
(*   - backend/game_logic.py            (canonical, symbols X / O)         *)
(*   - Back-End-Game-Logic/game_logic_main.py (legacy, symbols X / Y)      *)
(* Both are modelled here and driven side by side by the same calls, so    *)
(* that every sequence of make_move / reset calls is explored for each.    *)
(***************************************************************************)
EXTENDS Integers, Sequences, FiniteSets, TLC

(***************************************************************************)
(* Bounds of the exploration.                                              *)
(***************************************************************************)
\* make_move is called with row, col drawn from -Margin..2+Margin; the
\* board indices are 0..2, so with Margin = 1 the out-of-bounds inputs are
\* -1 and 3.
Margin == 1
\* number of accepted moves explored between two resets
MaxMoves == 7

\* the game ids a request to the FastAPI layer can name are 0..MaxGames
MaxGames == 2

\* requests the Flask server handles at the same time, one thread each
MaxThreads == 2

\* accepted moves the observer counts when play goes on without end; from
\* there on the count stays
MaxForever == 7

Coord == (0 - Margin)..(2 + Margin)
Idx == 0..2

(***************************************************************************)
(* Values of the canonical engine (backend/game_logic.py).                 *)
(***************************************************************************)
X == "X"
O == "O"
EMPTY == " "

IN_PROGRESS == "in_progress"
X_WINS == "x_wins"
O_WINS == "o_wins"
DRAW == "draw"

\* Python's None, where it stands for "no coordinate"
NoPiece == <<>>
\* Python's None, where it stands for a scalar (cell, winner, return value)
NONE == "None"

\* board[row][col] for a 3x3 list of lists
EmptyBoard == [r \in Idx |-> [c \in Idx |-> EMPTY]]

\* b with b[row][col] = v
SetCell(b, row, col, v) == [b EXCEPT ![row][col] = v]

\* InfiniteTicTacToe.__init__
NewGame ==
    [board |-> EmptyBoard,
     move_history_x |-> <<>>,
     move_history_o |-> <<>>,
     current_player |-> X,
     state |-> IN_PROGRESS]

\* is_valid_move, taking the cell of the mover's oldest piece for free once
\* that piece is due to vanish
is_valid_move_own_oldest_free(g, row, col) ==
    IF g.state # IN_PROGRESS THEN FALSE
    ELSE IF row < 0 \/ row > 2 \/ col < 0 \/ col > 2 THEN FALSE
    ELSE LET move_history == IF g.current_player = X THEN g.move_history_x
                             ELSE g.move_history_o
         IN IF Len(move_history) >= 3 /\ move_history[1] = <<row, col>>
            THEN TRUE
            ELSE g.board[row][col] = EMPTY

\* is_valid_move, without the check that the game is still in progress
is_valid_move_ignores_state(g, row, col) ==
    IF row < 0 \/ row > 2 \/ col < 0 \/ col > 2 THEN FALSE
    ELSE IF g.board[row][col] # EMPTY THEN FALSE
    ELSE TRUE

\* InfiniteTicTacToe.is_valid_move: concluded, then bounds, then occupancy
is_valid_move(g, row, col) ==
    IF g.state # IN_PROGRESS THEN FALSE
    ELSE IF row < 0 \/ row > 2 \/ col < 0 \/ col > 2 THEN FALSE
    ELSE IF g.board[row][col] # EMPTY THEN FALSE
    ELSE TRUE

\* _check_win, taking two cells of the top row for a win
check_win_two_in_top_row(b, player) ==
    \/ b[0][0] = player /\ b[0][1] = player
    \/ \E row \in Idx : \A col \in Idx : b[row][col] = player
    \/ \E col \in Idx : \A row \in Idx : b[row][col] = player
    \/ \A i \in Idx : b[i][i] = player
    \/ \A i \in Idx : b[i][2 - i] = player

\* _check_win, without the top-right to bottom-left diagonal
check_win_one_diagonal(b, player) ==
    \/ \E row \in Idx : \A col \in Idx : b[row][col] = player
    \/ \E col \in Idx : \A row \in Idx : b[row][col] = player
    \/ \A i \in Idx : b[i][i] = player

\* InfiniteTicTacToe._check_win
check_win(b, player) ==
    \/ \E row \in Idx : \A col \in Idx : b[row][col] = player
    \/ \E col \in Idx : \A row \in Idx : b[row][col] = player
    \/ \A i \in Idx : b[i][i] = player
    \/ \A i \in Idx : b[i][2 - i] = player

\* InfiniteTicTacToe._check_draw
check_draw(b) ==
    ~ \E row \in Idx : \E col \in Idx : b[row][col] = EMPTY

\* vanish, with the threshold off by one (> 3 instead of >= 3)
vanish_above_three(b, move_history) ==
    IF Len(move_history) > 3
    THEN [board |-> SetCell(b, move_history[1][1], move_history[1][2], EMPTY),
          history |-> Tail(move_history)]
    ELSE [board |-> b, history |-> move_history]

\* vanish, popping the newest entry (pop()) instead of the oldest (pop(0))
vanish_pops_newest(b, move_history) ==
    IF Len(move_history) >= 3
    THEN [board |-> SetCell(b, move_history[3][1], move_history[3][2], EMPTY),
          history |-> SubSeq(move_history, 1, 2)]
    ELSE [board |-> b, history |-> move_history]

\* vanish, forgetting to clear the board cell of the removed piece
vanish_keeps_cell(b, move_history) ==
    IF Len(move_history) >= 3
    THEN [board |-> b, history |-> Tail(move_history)]
    ELSE [board |-> b, history |-> move_history]

\* the vanishing step of make_move: (board, history) after the oldest piece
\* of the mover has been removed, when the history already holds 3 entries
vanish(b, move_history) ==
    IF Len(move_history) >= 3
    THEN [board |-> SetCell(b, move_history[1][1], move_history[1][2], EMPTY),
          history |-> Tail(move_history)]
    ELSE [board |-> b, history |-> move_history]

\* reject, switching the turn although the move failed
reject_switches_turn(g) ==
    [ret |-> FALSE,
     self |-> [g EXCEPT !.current_player = IF @ = X THEN O ELSE X]]

\* make_move on an invalid move: "return False", nothing is touched
reject(g) == [ret |-> FALSE, self |-> g]

\* make_move, switching the turn only while the game goes on
make_move_keeps_turn_on_win(g, row, col) ==
    IF ~ is_valid_move(g, row, col)
    THEN reject(g)
    ELSE
      LET p == g.current_player
          move_history == IF p = X THEN g.move_history_x ELSE g.move_history_o
          v == vanish(g.board, move_history)
          b2 == SetCell(v.board, row, col, p)
          h2 == Append(v.history, <<row, col>>)
          st == IF check_win(b2, p)
                THEN (IF p = X THEN X_WINS ELSE O_WINS)
                ELSE IF check_draw(b2) THEN DRAW
                ELSE g.state
      IN [ret |-> TRUE,
          self |-> [board |-> b2,
                    move_history_x |-> IF p = X THEN h2 ELSE g.move_history_x,
                    move_history_o |-> IF p = X THEN g.move_history_o ELSE h2,
                    current_player |-> IF st # IN_PROGRESS THEN p
                                       ELSE IF p = X THEN O ELSE X,
                    state |-> st]]

\* InfiniteTicTacToe.make_move: the returned flag and the instance afterwards
make_move(g, row, col) ==
    IF ~ is_valid_move(g, row, col)
    THEN reject(g)
    ELSE
      LET p == g.current_player
          move_history == IF p = X THEN g.move_history_x ELSE g.move_history_o
          v == vanish(g.board, move_history)
          b2 == SetCell(v.board, row, col, p)
          h2 == Append(v.history, <<row, col>>)
          st == IF check_win(b2, p)
                THEN (IF p = X THEN X_WINS ELSE O_WINS)
                ELSE IF check_draw(b2) THEN DRAW
                ELSE g.state
      IN [ret |-> TRUE,
          self |-> [board |-> b2,
                    move_history_x |-> IF p = X THEN h2 ELSE g.move_history_x,
                    move_history_o |-> IF p = X THEN g.move_history_o ELSE h2,
                    current_player |-> IF p = X THEN O ELSE X,
                    state |-> st]]

\* the move list of the demo under __main__
moves ==
    << <<0, 0>>, <<1, 1>>, <<0, 1>>, <<0, 2>>,
       <<2, 2>>, <<2, 0>>, <<1, 0>>, <<1, 2>> >>

\* InfiniteTicTacToe.reset
reset(g) == NewGame

\* The getters of the canonical engine: what the call returns and the
\* instance afterwards.
get_board(g) == [ret |-> g.board, self |-> g]

get_current_player(g) == [ret |-> g.current_player, self |-> g]

get_game_state(g) == [ret |-> g.state, self |-> g]

\* InfiniteTicTacToe.get_move_history: a copy of the player's list
get_move_history(g, player) ==
    [ret |-> IF player = X THEN g.move_history_x
             ELSE IF player = O THEN g.move_history_o
             ELSE <<>>,
     self |-> g]

\* InfiniteTicTacToe.get_oldest_piece_position: entry 0 of the list, or None
get_oldest_piece_position(g, player) ==
    LET move_history == IF player = X THEN g.move_history_x
                        ELSE g.move_history_o
    IN [ret |-> IF Len(move_history) > 0 THEN move_history[1] ELSE NoPiece,
        self |-> g]

\* main.py _build_game_response, without the game_id: the getters called one
\* after the other on the same instance, the oldest pieces turned from
\* tuples into two-element lists
build_game_response(g) ==
    LET oldest_x == get_oldest_piece_position(g, X)
        oldest_o == get_oldest_piece_position(oldest_x.self, O)
        oldest_x_list == IF oldest_x.ret # NoPiece
                         THEN <<oldest_x.ret[1], oldest_x.ret[2]>>
                         ELSE NoPiece
        oldest_o_list == IF oldest_o.ret # NoPiece
                         THEN <<oldest_o.ret[1], oldest_o.ret[2]>>
                         ELSE NoPiece
        b == get_board(oldest_o.self)
        cp == get_current_player(b.self)
        st == get_game_state(cp.self)
        hx == get_move_history(st.self, X)
        ho == get_move_history(hx.self, O)
    IN [ret |-> [board |-> b.ret,
                 current_player |-> cp.ret,
                 state |-> st.ret,
                 move_history_x |-> hx.ret,
                 move_history_o |-> ho.ret,
                 oldest_piece_x |-> oldest_x_list,
                 oldest_piece_o |-> oldest_o_list],
        self |-> ho.self]

(***************************************************************************)
(* The legacy engine (Back-End-Game-Logic/game_logic_main.py).             *)
(* Its second player is 'Y', empty cells are None, and it places the new   *)
(* piece before trimming the oldest one.                                   *)
(***************************************************************************)
Y == "Y"
ONGOING == "ongoing"
LEGACY_DRAW == "draw"

MSG_INVALID == "Invalid position. Row and column must be between 0-2."
MSG_OCCUPIED == "Position already occupied."
\* f'Game is over. Status: {self.game_status}'
MsgOver(game_status) ==
    IF game_status = "X_wins" THEN "Game is over. Status: X_wins"
    ELSE IF game_status = "Y_wins" THEN "Game is over. Status: Y_wins"
    ELSE "Game is over. Status: draw"
MSG_OK == "Move successful"
MSG_RESET == "Game reset successfully"

LegacyEmptyBoard == [r \in Idx |-> [c \in Idx |-> NONE]]

\* legacy InfiniteTicTacToe.__init__
LegacyNewGame ==
    [board |-> LegacyEmptyBoard,
     player_moves |-> [p \in {X, Y} |-> <<>>],
     current_player |-> X,
     game_status |-> ONGOING,
     total_moves |-> 0]

\* legacy InfiniteTicTacToe._is_valid_position
is_valid_position(row, col) == (0 <= row /\ row <= 2) /\ (0 <= col /\ col <= 2)

\* the eight lines in the order _check_winner visits them
Lines ==
    << <<<<0, 0>>, <<0, 1>>, <<0, 2>>>>,
       <<<<1, 0>>, <<1, 1>>, <<1, 2>>>>,
       <<<<2, 0>>, <<2, 1>>, <<2, 2>>>>,
       <<<<0, 0>>, <<1, 0>>, <<2, 0>>>>,
       <<<<0, 1>>, <<1, 1>>, <<2, 1>>>>,
       <<<<0, 2>>, <<1, 2>>, <<2, 2>>>>,
       <<<<0, 0>>, <<1, 1>>, <<2, 2>>>>,
       <<<<0, 2>>, <<1, 1>>, <<2, 0>>>> >>

At(b, pos) == b[pos[1]][pos[2]]

\* _check_winner, without the "is not None" guards: a line of three empty
\* cells is returned as the winner None before later lines are looked at
check_winner_no_none_guard(b) ==
    LET hit(i) == /\ At(b, Lines[i][1]) = At(b, Lines[i][2])
                  /\ At(b, Lines[i][2]) = At(b, Lines[i][3])
        hits == {i \in 1..8 : hit(i)}
    IN IF hits = {} THEN NONE
       ELSE At(b, Lines[CHOOSE i \in hits : \A j \in hits : i <= j][1])

\* legacy InfiniteTicTacToe._check_winner: the symbol on the first line, in
\* visiting order, that holds three equal non-None cells; None without one
check_winner(b) ==
    LET hit(i) == /\ At(b, Lines[i][1]) = At(b, Lines[i][2])
                  /\ At(b, Lines[i][2]) = At(b, Lines[i][3])
                  /\ At(b, Lines[i][1]) # NONE
        hits == {i \in 1..8 : hit(i)}
    IN IF hits = {} THEN NONE
       ELSE At(b, Lines[CHOOSE i \in hits : \A j \in hits : i <= j][1])

\* legacy InfiniteTicTacToe._is_board_full
is_board_full(b) ==
    ~ \E row \in Idx : \E col \in Idx : b[row][col] = NONE

\* f'{winner}_wins'
WinsStatus(winner) == IF winner = X THEN "X_wins" ELSE "Y_wins"

\* trim, popping the newest entry (pop()) instead of the oldest (pop(0))
trim_pops_newest(b, history) ==
    IF Len(history) > 3
    THEN LET newest == history[Len(history)]
         IN [board |-> SetCell(b, newest[1], newest[2], NONE),
             moves |-> SubSeq(history, 1, Len(history) - 1),
             removed_piece |-> newest]
    ELSE [board |-> b, moves |-> history, removed_piece |-> NoPiece]

\* trim, with the threshold off by one
trim_above_four(b, history) ==
    IF Len(history) > 4
    THEN [board |-> SetCell(b, history[1][1], history[1][2], NONE),
          moves |-> Tail(history),
          removed_piece |-> history[1]]
    ELSE [board |-> b, moves |-> history, removed_piece |-> NoPiece]

\* the trimming step of the legacy make_move: after the new piece is placed
\* and appended, a history longer than 3 loses its head and that cell is
\* cleared
trim(b, history) ==
    IF Len(history) > 3
    THEN [board |-> SetCell(b, history[1][1], history[1][2], NONE),
          moves |-> Tail(history),
          removed_piece |-> history[1]]
    ELSE [board |-> b, moves |-> history, removed_piece |-> NoPiece]

\* the three early returns of the legacy make_move, in their order: the
\* message of the first check that fails, MSG_OK when none does
validate(g, row, col) ==
    IF ~ is_valid_position(row, col) THEN MSG_INVALID
    ELSE IF g.board[row][col] # NONE THEN MSG_OCCUPIED
    ELSE IF g.game_status # ONGOING THEN MsgOver(g.game_status)
    ELSE MSG_OK

\* legacy_reject, counting the failed attempt in total_moves
legacy_reject_counts_move(g, message) ==
    [result |-> [success |-> FALSE, message |-> message],
     self |-> [g EXCEPT !.total_moves = @ + 1]]

\* the dict of a failed legacy make_move; the instance is not touched
legacy_reject(g, message) ==
    [result |-> [success |-> FALSE, message |-> message], self |-> g]

\* the legacy make_move, looking for a winner before the oldest piece is
\* trimmed
legacy_make_move_wins_before_trim(g, row, col) ==
    IF validate(g, row, col) # MSG_OK
    THEN legacy_reject(g, validate(g, row, col))
    ELSE
      LET p == g.current_player
          b1 == SetCell(g.board, row, col, p)
          m1 == Append(g.player_moves[p], <<row, col>>)
          t == trim(b1, m1)
          winner == check_winner(b1)
          status == IF winner # NONE THEN WinsStatus(winner)
                    ELSE IF is_board_full(t.board) /\ winner = NONE
                         THEN LEGACY_DRAW
                    ELSE g.game_status
          next_player == IF p = X THEN Y ELSE X
      IN [result |-> [success |-> TRUE,
                      message |-> MSG_OK,
                      removed_piece |-> t.removed_piece,
                      current_player |-> next_player,
                      game_status |-> status,
                      winner |-> winner],
          self |-> [board |-> t.board,
                    player_moves |-> [g.player_moves EXCEPT ![p] = t.moves],
                    current_player |-> next_player,
                    game_status |-> status,
                    total_moves |-> g.total_moves + 1]]

\* the legacy make_move, switching the turn only while the game goes on
legacy_make_move_keeps_turn_on_win(g, row, col) ==
    IF validate(g, row, col) # MSG_OK
    THEN legacy_reject(g, validate(g, row, col))
    ELSE
      LET p == g.current_player
          b1 == SetCell(g.board, row, col, p)
          m1 == Append(g.player_moves[p], <<row, col>>)
          t == trim(b1, m1)
          winner == check_winner(t.board)
          status == IF winner # NONE THEN WinsStatus(winner)
                    ELSE IF is_board_full(t.board) /\ winner = NONE
                         THEN LEGACY_DRAW
                    ELSE g.game_status
          next_player == IF status # ONGOING THEN p
                         ELSE IF p = X THEN Y ELSE X
      IN [result |-> [success |-> TRUE,
                      message |-> MSG_OK,
                      removed_piece |-> t.removed_piece,
                      current_player |-> next_player,
                      game_status |-> status,
                      winner |-> winner],
          self |-> [board |-> t.board,
                    player_moves |-> [g.player_moves EXCEPT ![p] = t.moves],
                    current_player |-> next_player,
                    game_status |-> status,
                    total_moves |-> g.total_moves + 1]]

\* legacy InfiniteTicTacToe.make_move: the returned dict (without its board
\* copy) and the instance afterwards
legacy_make_move(g, row, col) ==
    IF validate(g, row, col) # MSG_OK
    THEN legacy_reject(g, validate(g, row, col))
    ELSE
      LET p == g.current_player
          b1 == SetCell(g.board, row, col, p)
          m1 == Append(g.player_moves[p], <<row, col>>)
          t == trim(b1, m1)
          winner == check_winner(t.board)
          status == IF winner # NONE THEN WinsStatus(winner)
                    ELSE IF is_board_full(t.board) /\ winner = NONE
                         THEN LEGACY_DRAW
                    ELSE g.game_status
          next_player == IF p = X THEN Y ELSE X
      IN [result |-> [success |-> TRUE,
                      message |-> MSG_OK,
                      removed_piece |-> t.removed_piece,
                      current_player |-> next_player,
                      game_status |-> status,
                      winner |-> winner],
          self |-> [board |-> t.board,
                    player_moves |-> [g.player_moves EXCEPT ![p] = t.moves],
                    current_player |-> next_player,
                    game_status |-> status,
                    total_moves |-> g.total_moves + 1]]

\* reset_game, forgetting to put the turn back to X
reset_game_keeps_turn(g) ==
    [result |-> [message |-> MSG_RESET,
                 current_player |-> g.current_player,
                 game_status |-> ONGOING],
     self |-> [LegacyNewGame EXCEPT !.current_player = g.current_player]]

\* legacy InfiniteTicTacToe.reset_game
reset_game(g) ==
    [result |-> [message |-> MSG_RESET,
                 current_player |-> X,
                 game_status |-> ONGOING],
     self |-> LegacyNewGame]

\* get_oldest_piece_for_player, taking the piece out of the list (pop(0))
\* instead of reading it
get_oldest_piece_for_player_pops(g, player) ==
    IF player \in DOMAIN g.player_moves /\ Len(g.player_moves[player]) > 0
    THEN [ret |-> g.player_moves[player][1],
          self |-> [g EXCEPT !.player_moves[player] = Tail(@)]]
    ELSE [ret |-> NoPiece, self |-> g]

\* legacy InfiniteTicTacToe.get_oldest_piece_for_player
get_oldest_piece_for_player(g, player) ==
    IF player \in DOMAIN g.player_moves /\ Len(g.player_moves[player]) > 0
    THEN [ret |-> g.player_moves[player][1], self |-> g]
    ELSE [ret |-> NoPiece, self |-> g]

\* legacy InfiniteTicTacToe.will_remove_piece
will_remove_piece(g, player) ==
    [ret |-> Len(g.player_moves[player]) >= 3, self |-> g]

\* legacy InfiniteTicTacToe.get_game_state: the dict, its entries evaluated
\* in the order they are written
legacy_get_game_state(g) ==
    LET ox == get_oldest_piece_for_player(g, X)
        oy == get_oldest_piece_for_player(ox.self, Y)
        wx == will_remove_piece(oy.self, X)
        wy == will_remove_piece(wx.self, Y)
    IN [ret |-> [board |-> g.board,
                 current_player |-> g.current_player,
                 game_status |-> g.game_status,
                 player_moves |-> g.player_moves,
                 total_moves |-> g.total_moves,
                 oldest_pieces |-> [p \in {X, Y} |->
                                       IF p = X THEN ox.ret ELSE oy.ret],
                 will_remove_next |-> [p \in {X, Y} |->
                                          IF p = X THEN wx.ret ELSE wy.ret]],
        self |-> wy.self]

\* result['next_blur_info'] = info, for the dict of a successful make_move
WithBlurInfo(r, info) ==
    [success |-> r.success,
     message |-> r.message,
     removed_piece |-> r.removed_piece,
     current_player |-> r.current_player,
     game_status |-> r.game_status,
     winner |-> r.winner,
     next_blur_info |-> info]

\* flask_make_move, describing in next_blur_info the player who has just
\* moved instead of the player to move
flask_make_move_blur_for_mover(g, row, col) ==
    LET l == legacy_make_move(g, row, col)
    IN IF l.result.success
       THEN LET next_player == g.current_player
                w == will_remove_piece(l.self, next_player)
                o == get_oldest_piece_for_player(w.self, next_player)
            IN [result |-> WithBlurInfo(l.result,
                               [current_player |-> next_player,
                                should_blur |-> w.ret,
                                piece_to_blur |-> o.ret]),
                code |-> 200,
                self |-> o.self]
       ELSE [result |-> l.result, code |-> 400, self |-> l.self]

\* flask_app.py make_move (POST /game/move) for a body that holds integers
\* row and col: the engine's dict, with next_blur_info added on success,
\* the status code, and the global game afterwards
flask_make_move(g, row, col) ==
    LET l == legacy_make_move(g, row, col)
    IN IF l.result.success
       THEN LET next_player == l.self.current_player
                w == will_remove_piece(l.self, next_player)
                o == get_oldest_piece_for_player(w.self, next_player)
            IN [result |-> WithBlurInfo(l.result,
                               [current_player |-> next_player,
                                should_blur |-> w.ret,
                                piece_to_blur |-> o.ret]),
                code |-> 200,
                self |-> o.self]
       ELSE [result |-> l.result, code |-> 400, self |-> l.self]

(***************************************************************************)
(* The FastAPI layer (backend/main.py).  Line 24 of main.py is             *)
(*     from game_logic import VanishingTicTacToe, GameState, Player        *)
(* and game_logic.py, the module of that name beside main.py, defines the  *)
(* classes Player, GameState and InfiniteTicTacToe: it has no              *)
(* VanishingTicTacToe.  The import raises ImportError and the body of the  *)
(* module ends there, whether main.py is run as a script or loaded by      *)
(* uvicorn (main:app): the app (line 96), the registry (line 120) and the  *)
(* handlers are never created and uvicorn.run (line 370) is never reached, *)
(* so nothing listens on port 8000 and a request gets no response.         *)
(***************************************************************************)
\* the names game_logic.py binds at module level (its imports, lines 11-12,
\* and its three classes, lines 16, 27 and 37)
GameLogicNames ==
    {"List", "Tuple", "Optional", "Enum", "Player", "GameState",
     "InfiniteTicTacToe"}

\* the names main.py imports from game_logic, in the order of line 24
ImportedNames == <<"VanishingTicTacToe", "GameState", "Player">>

IMPORT_ERROR == "ImportError"
SERVING == "serving"

\* from game_logic import ...: ImportError when game_logic lacks one of the
\* names; else the module body runs on and the server is started
import_game_logic ==
    IF \E i \in 1..Len(ImportedNames) : ImportedNames[i] \notin GameLogicNames
    THEN IMPORT_ERROR
    ELSE SERVING

\* the game ids a request can name
RequestIds == 0..MaxGames
\* MoveRequest.player is any string
PlayerNames == {"X", "O", "Z"}

\* the endpoints of main.py, and what a client can send to them
Endpoints == {"new", "move", "state", "reset", "delete", "list"}
Requests ==
    [op : Endpoints, game_id : RequestIds, row : Coord, col : Coord,
     player : PlayerNames]

\* no game is registered
NoGames == [id \in {} |-> NewGame]

\* HTTPException(status_code=404, detail="Game not found")
NOT_FOUND == [status_code |-> 404, detail |-> "Game not found"]

\* the request was not answered
NO_RESPONSE == [status_code |-> 0]

(***************************************************************************)
(* The state: one instance of each engine, driven by the same calls.       *)
(***************************************************************************)
VARIABLES
    game,        \* the canonical engine instance
    ret,         \* what the last call returned on the canonical engine; once
                 \* main.py has been started, how its module body ended
    legacy_game, \* the legacy engine instance
    result,      \* what the last call returned on the legacy engine
    last_call,   \* the name of the last call: "init", "make_move", "reset"
                 \* or "get_game_state"; "main" once main.py has been started
    accepted,    \* make_move calls the canonical engine accepted since reset
    placed,      \* per player, the cells of those accepted calls, in order
    games,       \* main.py: the registry, game id -> canonical engine instance
    issued,      \* the game ids uuid4 has produced so far
    request,     \* the last request a client sent to main.py; for the Flask
                 \* server, the threads handling requests and their objects
    response     \* the response to the last request to main.py

engine_vars == <<game, ret, legacy_game, result, last_call, accepted, placed>>
api_vars == <<games, issued, request, response>>
vars == <<game, ret, legacy_game, result, last_call, accepted, placed,
          games, issued, request, response>>

Init ==
    /\ game = NewGame
    /\ ret = NONE
    /\ legacy_game = LegacyNewGame
    /\ result = [message |-> "init"]
    /\ last_call = "init"
    /\ accepted = 0
    /\ placed = [p \in {X, O} |-> <<>>]
    /\ games = NoGames
    /\ issued = {}
    /\ request = [op |-> "none"]
    /\ response = [status_code |-> 0]

\* one make_move(row, col) call, made on both engines
MakeMove(row, col) ==
    /\ legacy_game.total_moves < MaxMoves
    /\ accepted < MaxMoves
    /\ LET r == make_move(game, row, col)
           l == legacy_make_move(legacy_game, row, col)
       IN /\ game' = r.self
          /\ ret' = r.ret
          /\ legacy_game' = l.self
          /\ result' = l.result
          /\ accepted' = IF r.ret THEN accepted + 1 ELSE accepted
          /\ placed' = IF r.ret
                       THEN [placed EXCEPT ![game.current_player] =
                                              Append(@, <<row, col>>)]
                       ELSE placed
    /\ last_call' = "make_move"
    /\ UNCHANGED api_vars

\* one reset call, made on both engines
Reset ==
    /\ game' = reset(game)
    /\ ret' = NONE
    /\ LET l == reset_game(legacy_game)
       IN /\ legacy_game' = l.self
          /\ result' = l.result
    /\ last_call' = "reset"
    /\ accepted' = 0
    /\ placed' = [p \in {X, O} |-> <<>>]
    /\ UNCHANGED api_vars

\* the state of both engines is read: through the getters that main.py's
\* _build_game_response calls on the canonical engine, and through
\* get_game_state on the legacy engine
GetGameState ==
    /\ LET r == build_game_response(game)
           l == legacy_get_game_state(legacy_game)
       IN /\ game' = r.self
          /\ ret' = r.ret
          /\ legacy_game' = l.self
          /\ result' = l.ret
    /\ last_call' = "get_game_state"
    /\ UNCHANGED <<accepted, placed>>
    /\ UNCHANGED api_vars

Next ==
    \/ \E row \in Coord, col \in Coord : MakeMove(row, col)
    \/ Reset

Spec == Init /\ [][Next]_vars

\* one move made on the canonical engine and, through the Flask handler of
\* POST /game/move, on the legacy engine
FlaskMove(row, col) ==
    /\ legacy_game.total_moves < MaxMoves
    /\ accepted < MaxMoves
    /\ LET r == make_move(game, row, col)
           l == flask_make_move(legacy_game, row, col)
       IN /\ game' = r.self
          /\ ret' = r.ret
          /\ legacy_game' = l.self
          /\ result' = l.result
          /\ accepted' = IF r.ret THEN accepted + 1 ELSE accepted
          /\ placed' = IF r.ret
                       THEN [placed EXCEPT ![game.current_player] =
                                              Append(@, <<row, col>>)]
                       ELSE placed
    /\ last_call' = "make_move"
    /\ UNCHANGED api_vars

\* the same calls, the moves going through the Flask handler, with reads of
\* the state between them
NextQuery ==
    \/ \E row \in Coord, col \in Coord : FlaskMove(row, col)
    \/ Reset
    \/ GetGameState

SpecQuery == Init /\ [][NextQuery]_vars

(***************************************************************************)
(* main.py is started, and clients send requests to its port.              *)
(***************************************************************************)
\* python main.py (or uvicorn main:app): the module body runs up to the
\* import of line 24
RunMain ==
    /\ last_call = "init"
    /\ last_call' = "main"
    /\ ret' = import_game_logic
    /\ UNCHANGED <<game, legacy_game, result, accepted, placed>>
    /\ UNCHANGED api_vars

\* a client sends a request after main.py was started; the module not
\* being loaded, no handler takes it
SendRequest(r) ==
    /\ last_call = "main"
    /\ ret # SERVING
    /\ request' = r
    /\ response' = NO_RESPONSE
    /\ UNCHANGED <<games, issued>>
    /\ UNCHANGED engine_vars

NextApi ==
    \/ RunMain
    \/ \E r \in Requests : SendRequest(r)

SpecApi == Init /\ [][NextApi]_vars

(***************************************************************************)
(* Vocabulary of the properties.                                           *)
(***************************************************************************)
Cells == Idx \X Idx

\* the coordinates a history holds
Range(h) == {h[i] : i \in 1..Len(h)}

\* the cells of b that carry sym
Marked(b, sym) == {pos \in Cells : b[pos[1]][pos[2]] = sym}

\* the 3 rows, 3 columns and 2 diagonals, as sets of cells
RefLines ==
    {{<<r, c>> : c \in Idx} : r \in Idx}
      \cup {{<<r, c>> : r \in Idx} : c \in Idx}
      \cup {{<<0, 0>>, <<1, 1>>, <<2, 2>>}, {<<0, 2>>, <<1, 1>>, <<2, 0>>}}

\* some line of b holds three sym
HasLine(b, sym) == \E line \in RefLines : line \subseteq Marked(b, sym)

InBounds(row, col) == row \in Idx /\ col \in Idx

Other(p) == IF p = X THEN O ELSE X
LegacyOther(p) == IF p = X THEN Y ELSE X

\* the canonical history of player p
Hist(g, p) == IF p = X THEN g.move_history_x ELSE g.move_history_o

WinState(p) == IF p = X THEN X_WINS ELSE O_WINS
LegacyWinStatus(p) == IF p = X THEN "X_wins" ELSE "Y_wins"

\* the last call was a make_move that both engines accepted
MoveAccepted == last_call = "make_move" /\ ret = TRUE /\ result.success

\* the last call was a make_move that both engines rejected
MoveRejected == last_call = "make_move" /\ ret = FALSE /\ ~ result.success

(***************************************************************************)
(* C1: in every reachable state, for each player the set of board cells    *)
(* carrying that player's symbol is exactly the set of coordinates in that *)
(* player's history, a history holds no coordinate twice, and no cell is   *)
(* in both histories; in both engines.                                     *)
(***************************************************************************)
C1_BoardHistoryConsistency ==
    /\ \A p \in {X, O} :
         /\ Marked(game.board, p) = Range(Hist(game, p))
         /\ Cardinality(Range(Hist(game, p))) = Len(Hist(game, p))
    /\ Range(game.move_history_x) \cap Range(game.move_history_o) = {}
    /\ \A p \in {X, Y} :
         /\ Marked(legacy_game.board, p) = Range(legacy_game.player_moves[p])
         /\ Cardinality(Range(legacy_game.player_moves[p]))
              = Len(legacy_game.player_moves[p])
    /\ Range(legacy_game.player_moves[X])
         \cap Range(legacy_game.player_moves[Y]) = {}

\* both players hold three pieces and the last move made a piece vanish
C1_Witness ==
    /\ MoveAccepted
    /\ result.removed_piece # NoPiece
    /\ Len(game.move_history_x) = 3
    /\ Len(game.move_history_o) = 3

(***************************************************************************)
(* C2: between operations every history has a length in 0..3, in both      *)
(* engines.                                                                *)
(***************************************************************************)
C2_HistoryAtMostThree ==
    /\ Len(game.move_history_x) \in 0..3
    /\ Len(game.move_history_o) \in 0..3
    /\ \A p \in {X, Y} : Len(legacy_game.player_moves[p]) \in 0..3

\* a player who held three pieces has moved again and still holds three
C2_Witness ==
    /\ MoveAccepted
    /\ legacy_game.total_moves = 7
    /\ Len(legacy_game.player_moves[X]) = 3
    /\ Len(game.move_history_x) = 3

(***************************************************************************)
(* C3: a successful make_move(row, col) by a player holding 3 pieces       *)
(* removes exactly the head of that player's history and empties exactly   *)
(* that cell: only the vanished cell and the target cell change, and the   *)
(* opponent's history is unchanged.  With fewer than 3 pieces only the     *)
(* target cell changes and the history grows by the one new entry.         *)
(***************************************************************************)
C3_CanonMove(g, row, col) ==
    LET r == make_move(g, row, col)
        p == g.current_player
        h == Hist(g, p)
        target == <<row, col>>
    IN r.ret =>
         /\ Hist(r.self, Other(p)) = Hist(g, Other(p))
         /\ r.self.board[row][col] = p
         /\ IF Len(h) = 3
            THEN /\ Hist(r.self, p) = <<h[2], h[3], target>>
                 /\ r.self.board[h[1][1]][h[1][2]] = EMPTY
                 /\ \A pos \in Cells \ {h[1], target} :
                       At(r.self.board, pos) = At(g.board, pos)
            ELSE /\ Len(h) < 3
                 /\ Hist(r.self, p) = Append(h, target)
                 /\ Len(Hist(r.self, p)) = Len(h) + 1
                 /\ \A pos \in Cells \ {target} :
                       At(r.self.board, pos) = At(g.board, pos)

C3_LegacyMove(g, row, col) ==
    LET l == legacy_make_move(g, row, col)
        p == g.current_player
        h == g.player_moves[p]
        target == <<row, col>>
    IN l.result.success =>
         /\ l.self.player_moves[LegacyOther(p)] = g.player_moves[LegacyOther(p)]
         /\ l.self.board[row][col] = p
         /\ IF Len(h) = 3
            THEN /\ l.self.player_moves[p] = <<h[2], h[3], target>>
                 /\ l.self.board[h[1][1]][h[1][2]] = NONE
                 /\ l.result.removed_piece = h[1]
                 /\ \A pos \in Cells \ {h[1], target} :
                       At(l.self.board, pos) = At(g.board, pos)
            ELSE /\ Len(h) < 3
                 /\ l.self.player_moves[p] = Append(h, target)
                 /\ Len(l.self.player_moves[p]) = Len(h) + 1
                 /\ l.result.removed_piece = NoPiece
                 /\ \A pos \in Cells \ {target} :
                       At(l.self.board, pos) = At(g.board, pos)

C3_VanishEffectAndFrame ==
    \A row \in Coord, col \in Coord :
        /\ C3_CanonMove(game, row, col)
        /\ C3_LegacyMove(legacy_game, row, col)

\* a move has just made the mover's oldest piece vanish: the removed cell is
\* empty in both engines and the mover holds three pieces
C3_Witness ==
    /\ MoveAccepted
    /\ result.removed_piece # NoPiece
    /\ At(game.board, result.removed_piece) = EMPTY
    /\ At(legacy_game.board, result.removed_piece) = NONE
    /\ Len(Hist(game, Other(game.current_player))) = 3

(***************************************************************************)
(* C4: once the outcome is a win or a draw, every make_move, for any row   *)
(* and col, is rejected and leaves the instance unchanged, and the outcome *)
(* keeps its value over every step that is not a reset.                    *)
(***************************************************************************)
C4_ConcludedIsAbsorbing ==
    [][ /\ game.state # IN_PROGRESS =>
             /\ \A row \in Coord, col \in Coord :
                   make_move(game, row, col) = [ret |-> FALSE, self |-> game]
             /\ last_call' # "reset" => game' = game
        /\ legacy_game.game_status # ONGOING =>
             /\ \A row \in Coord, col \in Coord :
                   LET l == legacy_make_move(legacy_game, row, col)
                   IN ~ l.result.success /\ l.self = legacy_game
             /\ last_call' # "reset" => legacy_game' = legacy_game
      ]_vars

\* a make_move has been attempted on a concluded game and was rejected
C4_Witness ==
    /\ MoveRejected
    /\ game.state \in {X_WINS, O_WINS}
    /\ legacy_game.game_status \in {"X_wins", "Y_wins"}

(***************************************************************************)
(* C5: a make_move is rejected exactly when the game is concluded, row or  *)
(* col is outside 0..2, or the target cell is occupied, and a rejected     *)
(* make_move leaves the whole instance (board, histories, current player,  *)
(* outcome, and total_moves in the legacy engine) as it was.               *)
(***************************************************************************)
C5_RejectedMoveMutatesNothing ==
    \A row \in Coord, col \in Coord :
        LET r == make_move(game, row, col)
            l == legacy_make_move(legacy_game, row, col)
            bad == \/ game.state # IN_PROGRESS
                   \/ ~ InBounds(row, col)
                   \/ game.board[row][col] # EMPTY
            legacy_bad == \/ legacy_game.game_status # ONGOING
                          \/ ~ InBounds(row, col)
                          \/ legacy_game.board[row][col] # NONE
        IN /\ r.ret = ~ bad
           /\ ~ r.ret => r.self = game
           /\ l.result.success = ~ legacy_bad
           /\ ~ l.result.success => l.self = legacy_game

\* a move onto an occupied cell has just been rejected in a game in progress
\* in which both players hold three pieces
C5_Witness ==
    /\ MoveRejected
    /\ result.message = MSG_OCCUPIED
    /\ game.state = IN_PROGRESS
    /\ accepted = 6

(***************************************************************************)
(* C6: a move attempt is checked for a concluded game, then                *)
(* for out-of-bounds coordinates, then for an occupied cell, and the       *)
(* reported reason is that of the first check that fails; an out-of-bounds *)
(* or occupied-cell attempt on a concluded game is reported as "game       *)
(* already concluded".  Stated on the engine that reports a reason.        *)
(***************************************************************************)
C6_ConcludedReportedFirst ==
    \A row \in Coord, col \in Coord :
        legacy_make_move(legacy_game, row, col).result.message =
            IF legacy_game.game_status # ONGOING
            THEN MsgOver(legacy_game.game_status)
            ELSE IF ~ InBounds(row, col) THEN MSG_INVALID
            ELSE IF legacy_game.board[row][col] # NONE THEN MSG_OCCUPIED
            ELSE MSG_OK

(***************************************************************************)
(* C7: the current player is X at the start and after a reset, flips on    *)
(* every accepted make_move and is unchanged by every rejected one, so the *)
(* k-th accepted move since the reset is made by X when k is odd and by    *)
(* O (Y in the legacy engine) when k is even.                              *)
(***************************************************************************)
C7_TurnAlternation ==
    [][ /\ (accepted = 0 => game.current_player = X)
        /\ (legacy_game.total_moves = 0 => legacy_game.current_player = X)
        /\ last_call' = "reset" =>
             game'.current_player = X /\ legacy_game'.current_player = X
        /\ last_call' = "make_move" =>
             /\ IF ret'
                THEN /\ game'.current_player = Other(game.current_player)
                     /\ game.current_player
                          = (IF accepted' % 2 = 1 THEN X ELSE O)
                ELSE game'.current_player = game.current_player
             /\ IF result'.success
                THEN /\ legacy_game'.current_player
                          = LegacyOther(legacy_game.current_player)
                     /\ legacy_game.current_player
                          = (IF legacy_game'.total_moves % 2 = 1 THEN X ELSE Y)
                ELSE legacy_game'.current_player = legacy_game.current_player
      ]_vars

\* after X's winning move (the 5th accepted move) the turn is O's, and a
\* rejected attempt has left it there
C7_Witness ==
    /\ MoveRejected
    /\ accepted = 5
    /\ game.state = X_WINS
    /\ game.current_player = O
    /\ legacy_game.current_player = Y

(***************************************************************************)
(* C8: after an accepted move (the mover's vanish, if any, and the         *)
(* placement) the outcome is the mover's win exactly when some row, column *)
(* or diagonal of the resulting board holds three of the mover's symbol,   *)
(* and is in-progress otherwise.  In particular X, holding (0,0) and       *)
(* (0,1), wins by placing (0,2), and then no move is accepted.             *)
(***************************************************************************)
C8_CanonMove(g, row, col) ==
    LET r == make_move(g, row, col)
        p == g.current_player
    IN r.ret =>
         /\ r.self.state = WinState(p) <=> HasLine(r.self.board, p)
         /\ ~ HasLine(r.self.board, p) => r.self.state = IN_PROGRESS

C8_LegacyMove(g, row, col) ==
    LET l == legacy_make_move(g, row, col)
        p == g.current_player
    IN l.result.success =>
         /\ l.self.game_status = LegacyWinStatus(p) <=> HasLine(l.self.board, p)
         /\ l.result.winner = p <=> HasLine(l.self.board, p)
         /\ ~ HasLine(l.self.board, p) =>
               l.self.game_status = ONGOING /\ l.result.winner = NONE

C8_RowZeroExample ==
    (/\ game.move_history_x = << <<0, 0>>, <<0, 1>> >>
     /\ game.current_player = X
     /\ game.state = IN_PROGRESS
     /\ game.board[0][2] = EMPTY)
    => LET r == make_move(game, 0, 2)
       IN /\ r.ret
          /\ r.self.state = X_WINS
          /\ \A row \in Coord, col \in Coord :
                ~ make_move(r.self, row, col).ret

C8_WinDetection ==
    /\ \A row \in Coord, col \in Coord :
          /\ C8_CanonMove(game, row, col)
          /\ C8_LegacyMove(legacy_game, row, col)
    /\ C8_RowZeroExample

\* X has just completed row 0 with its third placement
C8_Witness ==
    /\ MoveAccepted
    /\ game.move_history_x = << <<0, 0>>, <<0, 1>>, <<0, 2>> >>
    /\ game.state = X_WINS
    /\ legacy_game.game_status = "X_wins"
    /\ result.winner = X

(***************************************************************************)
(* C9: when a player holding 3 pieces makes an accepted move, the win is   *)
(* decided on the board from which the oldest piece is already removed: a  *)
(* line that needs the vanished piece does not win.  In particular X,      *)
(* holding (0,0), (0,1), (2,2) with (0,0) oldest, does not win by placing  *)
(* (0,2).  In both engines.                                                *)
(***************************************************************************)
C9_CanonMove(g, row, col) ==
    LET r == make_move(g, row, col)
        p == g.current_player
        h == Hist(g, p)
        kept == SetCell(g.board, row, col, p)
        final == SetCell(SetCell(g.board, h[1][1], h[1][2], EMPTY), row, col, p)
    IN (r.ret /\ Len(h) = 3) =>
         /\ r.self.board = final
         /\ r.self.state = WinState(p) <=> HasLine(final, p)
         /\ (HasLine(kept, p) /\ ~ HasLine(final, p))
               => r.self.state = IN_PROGRESS

C9_LegacyMove(g, row, col) ==
    LET l == legacy_make_move(g, row, col)
        p == g.current_player
        h == g.player_moves[p]
        kept == SetCell(g.board, row, col, p)
        final == SetCell(SetCell(g.board, h[1][1], h[1][2], NONE), row, col, p)
    IN (l.result.success /\ Len(h) = 3) =>
         /\ l.self.board = final
         /\ l.self.game_status = LegacyWinStatus(p) <=> HasLine(final, p)
         /\ (HasLine(kept, p) /\ ~ HasLine(final, p))
               => l.self.game_status = ONGOING /\ l.result.winner = NONE

C9_RowZeroExample ==
    (/\ game.move_history_x = << <<0, 0>>, <<0, 1>>, <<2, 2>> >>
     /\ game.current_player = X
     /\ game.state = IN_PROGRESS
     /\ game.board[0][2] = EMPTY)
    => LET r == make_move(game, 0, 2)
       IN /\ r.ret
          /\ r.self.state = IN_PROGRESS
          /\ r.self.move_history_x = << <<0, 1>>, <<2, 2>>, <<0, 2>> >>

C9_VanishBeforeWinCheck ==
    /\ \A row \in Coord, col \in Coord :
          /\ C9_CanonMove(game, row, col)
          /\ C9_LegacyMove(legacy_game, row, col)
    /\ C9_RowZeroExample

\* X has just placed (0,2) next to (0,1) while its oldest piece (0,0)
\* vanished, and the game goes on
C9_Witness ==
    /\ MoveAccepted
    /\ result.removed_piece = <<0, 0>>
    /\ game.move_history_x = << <<0, 1>>, <<2, 2>>, <<0, 2>> >>
    /\ game.state = IN_PROGRESS
    /\ legacy_game.game_status = ONGOING
    /\ HasLine(SetCell(game.board, 0, 0, X), X)

(***************************************************************************)
(* C10: from a fresh game the moves X(0,0), O(1,1), X(0,1), O(0,2),        *)
(* X(2,2), O(2,0) are accepted and leave the O history at                  *)
(* [(1,1),(0,2),(2,0)]; then X(1,0) is accepted, X's oldest piece (0,0)    *)
(* vanishes, board[0][0] becomes empty, X's history is                     *)
(* [(0,1),(2,2),(1,0)] and the current player is O.                        *)
(***************************************************************************)
\* the histories the scenario expects after 0, 1, ..., 7 accepted moves
C10_HistoryX ==
    << <<>>,
       << <<0, 0>> >>,
       << <<0, 0>> >>,
       << <<0, 0>>, <<0, 1>> >>,
       << <<0, 0>>, <<0, 1>> >>,
       << <<0, 0>>, <<0, 1>>, <<2, 2>> >>,
       << <<0, 0>>, <<0, 1>>, <<2, 2>> >>,
       << <<0, 1>>, <<2, 2>>, <<1, 0>> >> >>

C10_HistoryO ==
    << <<>>,
       <<>>,
       << <<1, 1>> >>,
       << <<1, 1>> >>,
       << <<1, 1>>, <<0, 2>> >>,
       << <<1, 1>>, <<0, 2>> >>,
       << <<1, 1>>, <<0, 2>>, <<2, 0>> >>,
       << <<1, 1>>, <<0, 2>>, <<2, 0>> >> >>

\* the game has taken the first k - 1 moves of the scenario
C10_After(k) ==
    /\ accepted = k - 1
    /\ game.move_history_x = C10_HistoryX[k]
    /\ game.move_history_o = C10_HistoryO[k]

C10_DemoScenario ==
    \A k \in 1..7 :
        C10_After(k) =>
            LET r == make_move(game, moves[k][1], moves[k][2])
            IN /\ r.ret
               /\ r.self.move_history_x = C10_HistoryX[k + 1]
               /\ r.self.move_history_o = C10_HistoryO[k + 1]
               /\ r.self.current_player = (IF k % 2 = 1 THEN O ELSE X)
               /\ k = 7 => r.self.board[0][0] = EMPTY

(***************************************************************************)
(* C11: reset from any reachable state, in progress or concluded, yields   *)
(* exactly the initial state: nine empty cells, two empty histories,       *)
(* current player X, outcome in-progress (and total_moves 0 in the legacy  *)
(* engine); after the reset a move on any cell is accepted again.          *)
(***************************************************************************)
C11_IsInitial(g) ==
    /\ \A pos \in Cells : At(g.board, pos) = EMPTY
    /\ g.move_history_x = <<>>
    /\ g.move_history_o = <<>>
    /\ g.current_player = X
    /\ g.state = IN_PROGRESS

C11_LegacyIsInitial(g) ==
    /\ \A pos \in Cells : At(g.board, pos) = NONE
    /\ g.player_moves[X] = <<>>
    /\ g.player_moves[Y] = <<>>
    /\ g.current_player = X
    /\ g.game_status = ONGOING
    /\ g.total_moves = 0

C11_ResetRestoresInitialState ==
    /\ C11_IsInitial(reset(game))
    /\ C11_LegacyIsInitial(reset_game(legacy_game).self)
    /\ reset_game(legacy_game).result.current_player = X
    /\ reset_game(legacy_game).result.game_status = ONGOING
    /\ \A pos \in Cells :
          /\ make_move(reset(game), pos[1], pos[2]).ret
          /\ legacy_make_move(reset_game(legacy_game).self,
                              pos[1], pos[2]).result.success
    /\ last_call = "reset" =>
          /\ C11_IsInitial(game)
          /\ C11_LegacyIsInitial(legacy_game)

\* a reset has just been made and both instances are as constructed
C11_Witness ==
    /\ last_call = "reset"
    /\ result.message = MSG_RESET
    /\ C11_IsInitial(game)
    /\ C11_LegacyIsInitial(legacy_game)

(***************************************************************************)
(* C12: a history is ordered oldest first: it equals, in placement order,  *)
(* the player's last min(3, k) accepted placements since the last reset,   *)
(* k being the number of that player's accepted moves; index 0 is the      *)
(* oldest surviving piece and the last index the most recent placement.    *)
(***************************************************************************)
\* the last n entries of s
LastN(s, n) == SubSeq(s, Len(s) - n + 1, Len(s))

C12_Surviving(p) ==
    LastN(placed[p], IF Len(placed[p]) < 3 THEN Len(placed[p]) ELSE 3)

C12_HistoryIsLastThreePlacements ==
    /\ game.move_history_x = C12_Surviving(X)
    /\ game.move_history_o = C12_Surviving(O)
    /\ legacy_game.player_moves[X] = C12_Surviving(X)
    /\ legacy_game.player_moves[Y] = C12_Surviving(O)

\* X has placed four pieces: the first is gone and the history holds the
\* second, third and fourth, in that order
C12_Witness ==
    /\ MoveAccepted
    /\ Len(placed[X]) = 4
    /\ game.move_history_x = <<placed[X][2], placed[X][3], placed[X][4]>>
    /\ result.removed_piece = placed[X][1]

(***************************************************************************)
(* C13: in every reachable state at most one player has three in a row; a  *)
(* player has a line exactly when the outcome is that player's win; the    *)
(* winner recorded is the player who made the last successful move, so the *)
(* legacy _check_winner, which looks at no symbol in particular and visits *)
(* the lines in a fixed order, never reports the non-mover.                *)
(***************************************************************************)
C13_AtMostOneLine ==
    /\ ~ (HasLine(game.board, X) /\ HasLine(game.board, O))
    /\ ~ (HasLine(legacy_game.board, X) /\ HasLine(legacy_game.board, Y))

C13_LineIffWin ==
    /\ \A p \in {X, O} : HasLine(game.board, p) <=> game.state = WinState(p)
    /\ \A p \in {X, Y} :
          HasLine(legacy_game.board, p) <=>
              legacy_game.game_status = LegacyWinStatus(p)

\* the player to move after a win is the loser: the winner made the last move
C13_WinnerIsLastMover ==
    /\ \A p \in {X, O} :
          game.state = WinState(p) => game.current_player = Other(p)
    /\ \A p \in {X, Y} :
          legacy_game.game_status = LegacyWinStatus(p) =>
              legacy_game.current_player = LegacyOther(p)
    /\ \A row \in Coord, col \in Coord :
          LET r == make_move(game, row, col)
              l == legacy_make_move(legacy_game, row, col)
          IN /\ r.ret /\ r.self.state # IN_PROGRESS =>
                    r.self.state = WinState(game.current_player)
             /\ l.result.success =>
                    l.result.winner \in {NONE, legacy_game.current_player}

\* whatever the visiting order, _check_winner answers the one symbol that
\* has a line, or None
C13_OrderIrrelevant ==
    \A p \in {X, Y} :
        check_winner(legacy_game.board) = p <=> HasLine(legacy_game.board, p)

\* C13: at most one line, a line iff that player's win, the winner is the
\* last mover, and the visiting order of _check_winner does not matter
C13_SingleWinner ==
    /\ C13_AtMostOneLine
    /\ C13_LineIffWin
    /\ C13_WinnerIsLastMover
    /\ C13_OrderIrrelevant

\* O (Y) has just completed a line while X holds three pieces without one
C13_Witness ==
    /\ MoveAccepted
    /\ result.winner = Y
    /\ HasLine(legacy_game.board, Y) /\ HasLine(game.board, O)
    /\ game.state = O_WINS /\ game.current_player = X
    /\ Len(game.move_history_x) = 3 /\ ~ HasLine(game.board, X)

(***************************************************************************)
(* C14: both engines switch the turn on every successful move, the move    *)
(* that concludes the game included: with outcome X wins the current       *)
(* player is O (Y), with outcome O (Y) wins it is X; and the two engines   *)
(* switch in the same calls, so their current players always correspond.   *)
(***************************************************************************)
C14_TurnAfterWin ==
    /\ game.state = X_WINS => game.current_player = O
    /\ game.state = O_WINS => game.current_player = X
    /\ legacy_game.game_status = "X_wins" => legacy_game.current_player = Y
    /\ legacy_game.game_status = "Y_wins" => legacy_game.current_player = X

C14_SameTurnInBothEngines ==
    /\ game.current_player = X <=> legacy_game.current_player = X
    /\ game.current_player = O <=> legacy_game.current_player = Y

C14_EveryAcceptedMoveSwitches ==
    \A row \in Coord, col \in Coord :
        LET r == make_move(game, row, col)
            l == legacy_make_move(legacy_game, row, col)
        IN /\ r.ret <=> l.result.success
           /\ r.ret =>
                 /\ r.self.current_player = Other(game.current_player)
                 /\ l.self.current_player =
                        LegacyOther(legacy_game.current_player)
                 /\ l.result.current_player = l.self.current_player
           /\ ~ r.ret =>
                 /\ r.self.current_player = game.current_player
                 /\ l.self.current_player = legacy_game.current_player

\* C14: the turn is switched on every accepted move, the concluding one
\* included, and in the same calls by both engines
C14_UnconditionalTurnSwitch ==
    /\ C14_TurnAfterWin
    /\ C14_SameTurnInBothEngines
    /\ C14_EveryAcceptedMoveSwitches

\* X has just won and it is O's (Y's) turn in the concluded game
C14_Witness ==
    /\ MoveAccepted
    /\ game.state = X_WINS /\ game.current_player = O
    /\ legacy_game.game_status = "X_wins" /\ legacy_game.current_player = Y
    /\ result.winner = X /\ result.current_player = Y

(***************************************************************************)
(* C15: the draw outcome is unreachable through play: in every state       *)
(* reachable from the initial state by make_move and reset at most 6 cells *)
(* are occupied, the board is never full and the outcome is never a draw.  *)
(***************************************************************************)
C15_Occupied(b, empty) == {pos \in Cells : b[pos[1]][pos[2]] # empty}

C15_DrawUnreachable ==
    /\ Cardinality(C15_Occupied(game.board, EMPTY)) <= 6
    /\ Cardinality(C15_Occupied(legacy_game.board, NONE)) <= 6
    /\ ~ check_draw(game.board)
    /\ ~ is_board_full(legacy_game.board)
    /\ game.state # DRAW
    /\ legacy_game.game_status # LEGACY_DRAW

\* the fullest board there is: a seventh piece was placed, one vanished, six
\* cells are occupied and the game goes on
C15_Witness ==
    /\ MoveAccepted
    /\ accepted = 7
    /\ result.removed_piece # NoPiece
    /\ Cardinality(C15_Occupied(game.board, EMPTY)) = 6
    /\ Cardinality(C15_Occupied(legacy_game.board, NONE)) = 6
    /\ game.state = IN_PROGRESS

(***************************************************************************)
(* C16: the queries are pure and exact: the oldest piece of a player is    *)
(* entry 0 of that player's history, or none when the history is empty;    *)
(* will_remove_piece(player) is true iff the player's history holds 3 or   *)
(* more entries; and calling either of them, get_game_state or             *)
(* get_move_history in any reachable state leaves board, histories,        *)
(* current player and outcome as they were.                                *)
(***************************************************************************)
C16_Head(history) == IF history = <<>> THEN NoPiece ELSE history[1]

C16_CanonQueries ==
    /\ \A p \in {X, O} :
          /\ get_oldest_piece_position(game, p) =
                [ret |-> C16_Head(Hist(game, p)), self |-> game]
          /\ get_move_history(game, p) = [ret |-> Hist(game, p), self |-> game]
    /\ get_game_state(game) = [ret |-> game.state, self |-> game]
    /\ build_game_response(game).self = game
    /\ build_game_response(game).ret.oldest_piece_x =
          C16_Head(game.move_history_x)
    /\ build_game_response(game).ret.oldest_piece_o =
          C16_Head(game.move_history_o)

C16_LegacyQueries ==
    /\ \A p \in {X, Y} :
          /\ get_oldest_piece_for_player(legacy_game, p) =
                [ret |-> C16_Head(legacy_game.player_moves[p]),
                 self |-> legacy_game]
          /\ will_remove_piece(legacy_game, p) =
                [ret |-> Len(legacy_game.player_moves[p]) >= 3,
                 self |-> legacy_game]
          /\ legacy_get_game_state(legacy_game).ret.oldest_pieces[p] =
                C16_Head(legacy_game.player_moves[p])
          /\ legacy_get_game_state(legacy_game).ret.will_remove_next[p] =
                (Len(legacy_game.player_moves[p]) >= 3)
    /\ legacy_get_game_state(legacy_game).self = legacy_game

\* what a read has returned describes the instance as it is after the read
C16_AnswerMatchesState ==
    last_call = "get_game_state" =>
        /\ ret = build_game_response(game).ret
        /\ ret.board = game.board
        /\ ret.current_player = game.current_player
        /\ ret.state = game.state
        /\ ret.move_history_x = game.move_history_x
        /\ ret.move_history_o = game.move_history_o
        /\ result = legacy_get_game_state(legacy_game).ret
        /\ result.board = legacy_game.board
        /\ result.player_moves = legacy_game.player_moves
        /\ result.current_player = legacy_game.current_player
        /\ result.game_status = legacy_game.game_status

\* C16: the queries answer exactly and leave the instance as it was
C16_QueriesPureAndExact ==
    /\ C16_CanonQueries
    /\ C16_LegacyQueries
    /\ C16_AnswerMatchesState

\* the state has been read while X holds three pieces and O two: X's next
\* move removes a piece, O's does not, and both oldest pieces are reported
C16_Witness ==
    /\ last_call = "get_game_state"
    /\ Len(game.move_history_x) = 3 /\ Len(game.move_history_o) = 2
    /\ ret.oldest_piece_x = game.move_history_x[1]
    /\ ret.oldest_piece_o = game.move_history_o[1]
    /\ result.will_remove_next[X] /\ ~ result.will_remove_next[Y]
    /\ result.oldest_pieces[Y] = legacy_game.player_moves[Y][1]

(***************************************************************************)
(* C17: the preview queries of the legacy engine predict the next move:    *)
(* for the current player P of a reachable state in progress, a successful *)
(* make_move reports a removed_piece other than None iff                   *)
(* will_remove_piece(P) was true just before it, and then removed_piece is *)
(* what get_oldest_piece_for_player(P) returned just before it; otherwise  *)
(* removed_piece is None.  The next_blur_info returned with a successful   *)
(* move describes the new current player in the same way.                  *)
(***************************************************************************)
C17_PredictedBy(should_blur, piece_to_blur, removed_piece) ==
    /\ removed_piece # NoPiece <=> should_blur
    /\ should_blur => removed_piece = piece_to_blur

\* the two queries, asked just before the move, predict it
C17_QueriesPredict(l) ==
    LET P == legacy_game.current_player
    IN C17_PredictedBy(will_remove_piece(legacy_game, P).ret,
                       get_oldest_piece_for_player(legacy_game, P).ret,
                       l.result.removed_piece)

\* next_blur_info is what the two queries answer for the new current player
C17_BlurInfoDescribesNextPlayer(l) ==
    LET P == l.self.current_player
    IN /\ P = LegacyOther(legacy_game.current_player)
       /\ l.result.next_blur_info =
             [current_player |-> P,
              should_blur |-> will_remove_piece(l.self, P).ret,
              piece_to_blur |-> get_oldest_piece_for_player(l.self, P).ret]

\* the next_blur_info and the get_game_state answers that have been returned
\* predict the move that follows them
C17_ReturnedInfoPredicts(l) ==
    /\ MoveAccepted =>
          C17_PredictedBy(result.next_blur_info.should_blur,
                          result.next_blur_info.piece_to_blur,
                          l.result.removed_piece)
    /\ last_call = "get_game_state" =>
          C17_PredictedBy(
              result.will_remove_next[legacy_game.current_player],
              result.oldest_pieces[legacy_game.current_player],
              l.result.removed_piece)

\* C17: what the preview queries and next_blur_info say before a move is
\* what the next accepted move does
C17_PreviewPredictsNextMove ==
    \A row \in Coord, col \in Coord :
        LET l == flask_make_move(legacy_game, row, col)
        IN IF l.result.success
           THEN /\ legacy_game.game_status = ONGOING
                /\ C17_QueriesPredict(l)
                /\ C17_BlurInfoDescribesNextPlayer(l)
                /\ C17_ReturnedInfoPredicts(l)
           ELSE "next_blur_info" \notin DOMAIN l.result

\* X's fourth piece has been placed and X's oldest has been removed; the
\* next_blur_info of that move announces that O's oldest piece goes next
C17_Witness ==
    /\ MoveAccepted
    /\ legacy_game.game_status = ONGOING
    /\ result.removed_piece # NoPiece
    /\ result.next_blur_info.current_player = Y
    /\ result.next_blur_info.should_blur
    /\ result.next_blur_info.piece_to_blur = legacy_game.player_moves[Y][1]

(***************************************************************************)
(* C19: a move, state, reset or delete request for a game id that is not   *)
(* registered is answered 404 "Game not found" and changes no game and not *)
(* the set of registered ids; delete of a registered id removes exactly    *)
(* that id, after which every request for it is "not found"; create adds   *)
(* exactly one new id.                                                     *)
(***************************************************************************)
C19_RegistryContract ==
    /\ (request.op \in {"move", "state", "reset", "delete"}
          /\ request.game_id \notin DOMAIN games) =>
           response = NOT_FOUND
    /\ (request.op = "delete" /\ response.status_code = 200) =>
           request.game_id \notin DOMAIN games
    /\ request.op = "new" =>
           /\ response.status_code = 200
           /\ Cardinality(DOMAIN games) = 1

(***************************************************************************)
(* The win checks as functions of the board alone: every 3x3 board is      *)
(* given to _check_win (canonical) and, with O written Y and empty written *)
(* None, to _check_winner (legacy).                                        *)
(***************************************************************************)
AllBoards == [Idx -> [Idx -> {EMPTY, X, O}]]

\* the same board in the legacy engine's symbols
ToLegacy(b) ==
    [r \in Idx |-> [c \in Idx |->
        IF b[r][c] = EMPTY THEN NONE ELSE IF b[r][c] = O THEN Y ELSE X]]

InitBoards ==
    /\ \E b \in AllBoards :
          /\ game = [NewGame EXCEPT !.board = b]
          /\ legacy_game = [LegacyNewGame EXCEPT !.board = ToLegacy(b)]
    /\ ret = NONE
    /\ result = [message |-> "init"]
    /\ last_call = "init"
    /\ accepted = 0
    /\ placed = [p \in {X, O} |-> <<>>]
    /\ games = NoGames
    /\ issued = {}
    /\ request = [op |-> "none"]
    /\ response = [status_code |-> 0]

\* _check_win(X), _check_win(O) and _check_winner() are called on the board
CheckWin ==
    /\ last_call = "init"
    /\ ret' = [p \in {X, O} |-> check_win(game.board, p)]
    /\ result' = [winner |-> check_winner(legacy_game.board)]
    /\ last_call' = "check_win"
    /\ UNCHANGED <<game, legacy_game, accepted, placed>>
    /\ UNCHANGED api_vars

NextBoards == CheckWin

SpecBoards == InitBoards /\ [][NextBoards]_vars

(***************************************************************************)
(* C24 (as stated): for every 3x3 board, _check_win(player) is true iff    *)
(* one of the 8 lines consists of three cells of player's symbol, and      *)
(* _check_winner returns a symbol s iff some line consists of three s      *)
(* cells, None iff there is no line of equal non-empty symbols.            *)
(***************************************************************************)
C24_WinnerIffLine ==
    /\ \A p \in {X, O} : check_win(game.board, p) <=> HasLine(game.board, p)
    /\ \A s \in {X, Y} :
          check_winner(legacy_game.board) = s <=> HasLine(legacy_game.board, s)
    /\ check_winner(legacy_game.board) = NONE <=>
          ~ \E s \in {X, Y} : HasLine(legacy_game.board, s)

(***************************************************************************)
(* C24 (amended): _check_win(player) is true iff one of the 8 lines holds  *)
(* three cells of player's symbol; _check_winner returns None iff no line  *)
(* holds three equal non-empty symbols, and otherwise the symbol of the    *)
(* first such line in the order rows, columns, diagonals, so that on a     *)
(* board where both symbols have a line only one of them is returned;      *)
(* three empty cells never count as a line.                                *)
(***************************************************************************)
\* the reference: the lines of b, in the order rows top to bottom, columns
\* left to right, main diagonal, anti-diagonal, that hold three sym cells
C24_LineNumbers(b, sym) ==
    {i \in 1..8 : \A k \in 1..3 : At(b, Lines[i][k]) = sym}

C24_Min(S) == CHOOSE i \in S : \A j \in S : i <= j

C24_WinCheckAgainstReference ==
    LET b == game.board
        lb == legacy_game.board
        winner == check_winner(lb)
        lx == C24_LineNumbers(lb, X)
        ly == C24_LineNumbers(lb, Y)
    IN /\ \A p \in {X, O} : check_win(b, p) <=> HasLine(b, p)
       /\ winner \in {NONE, X, Y}
       /\ winner = NONE <=> ~ (HasLine(lb, X) \/ HasLine(lb, Y))
       /\ winner = X <=>
             /\ lx # {}
             /\ ly # {} => C24_Min(lx) < C24_Min(ly)
       /\ winner = Y <=>
             /\ ly # {}
             /\ lx # {} => C24_Min(ly) < C24_Min(lx)
       /\ last_call = "check_win" =>
             /\ ret = [p \in {X, O} |-> HasLine(b, p)]
             /\ result.winner = winner

\* the checks have run on a board where both symbols hold a row, Y's above
\* X's: _check_win is true for both, _check_winner answers Y only
C24_Witness ==
    /\ last_call = "check_win"
    /\ ret[X] /\ ret[O]
    /\ result.winner = Y
    /\ HasLine(legacy_game.board, X)
    /\ \E line \in RefLines : \A pos \in line : At(game.board, pos) = EMPTY

(***************************************************************************)
(* C25: the two engines are observationally equivalent: run side by side   *)
(* from their initial states on the same make_move and reset calls, they   *)
(* accept and reject the same calls and after every call have the same     *)
(* board, histories, current player and outcome, the legacy Y read as O.   *)
(***************************************************************************)
\* the legacy status that stands for a canonical outcome
C25_LegacyStatus(state) ==
    IF state = IN_PROGRESS THEN ONGOING
    ELSE IF state = X_WINS THEN "X_wins"
    ELSE IF state = O_WINS THEN "Y_wins"
    ELSE LEGACY_DRAW

\* the canonical instance g and the legacy instance lg show the same game
C25_SameGame(g, lg) ==
    /\ lg.board = ToLegacy(g.board)
    /\ lg.player_moves[X] = g.move_history_x
    /\ lg.player_moves[Y] = g.move_history_o
    /\ lg.current_player = (IF g.current_player = O THEN Y ELSE X)
    /\ lg.game_status = C25_LegacyStatus(g.state)

C25_EnginesEquivalent ==
    /\ C25_SameGame(game, legacy_game)
    /\ last_call = "make_move" => ret = result.success
    /\ \A row, col \in Coord :
          LET r == make_move(game, row, col)
              l == legacy_make_move(legacy_game, row, col)
          IN /\ r.ret = l.result.success
             /\ C25_SameGame(r.self, l.self)
    /\ C25_SameGame(reset(game), reset_game(legacy_game).self)

\* X's fourth piece has just been accepted by both engines: the legacy
\* engine placed it and then trimmed, the canonical engine trimmed first,
\* and both hold the same three X pieces and give the turn to the second
\* player
C25_Witness ==
    /\ MoveAccepted
    /\ Len(placed[X]) = 4
    /\ result.removed_piece = placed[X][1]
    /\ game.move_history_x = legacy_game.player_moves[X]
    /\ Len(legacy_game.player_moves[X]) = 3
    /\ game.current_player = O /\ legacy_game.current_player = Y

(***************************************************************************)
(* C26: a player holding 3 pieces cannot place onto the cell of their own  *)
(* oldest piece, although that piece is about to vanish: the move aimed at *)
(* index 0 of the mover's history is rejected as occupied and changes      *)
(* nothing, in both engines, since occupancy is validated before the       *)
(* oldest piece is removed.                                                *)
(***************************************************************************)
C26_OwnOldestCellRejected ==
    /\ LET move_history == Hist(game, game.current_player)
       IN Len(move_history) = 3 =>
             LET oldest == move_history[1]
                 r == make_move(game, oldest[1], oldest[2])
             IN /\ game.board[oldest[1]][oldest[2]] = game.current_player
                /\ ~ is_valid_move(game, oldest[1], oldest[2])
                /\ r.ret = FALSE
                /\ r.self = game
    /\ LET history == legacy_game.player_moves[legacy_game.current_player]
       IN Len(history) = 3 =>
             LET oldest == history[1]
                 l == legacy_make_move(legacy_game, oldest[1], oldest[2])
             IN /\ l.result.success = FALSE
                /\ l.result.message = MSG_OCCUPIED
                /\ l.self = legacy_game

\* a move of a player who holds 3 pieces has just been rejected as occupied
\* while the game goes on: the mover still holds the same 3 pieces, the
\* oldest among them, and it is still their turn
C26_Witness ==
    /\ MoveRejected
    /\ result.message = MSG_OCCUPIED
    /\ game.state = IN_PROGRESS
    /\ Len(Hist(game, game.current_player)) = 3
    /\ At(game.board, Hist(game, game.current_player)[1]) = game.current_player
    /\ Hist(game, game.current_player) = C12_Surviving(game.current_player)
    /\ Len(placed[game.current_player]) = 3

(***************************************************************************)
(* C27: piece counts are a function of the number n of successful moves    *)
(* since the last reset, rejected moves not counted: the legacy            *)
(* total_moves equals n, the current player is X iff n is even, X's        *)
(* history has length min(3, ceil(n/2)) and the second player's            *)
(* min(3, floor(n/2)); hence X's history is never shorter than the         *)
(* opponent's and exceeds it by at most 1.                                 *)
(***************************************************************************)
C27_Min3(k) == IF k < 3 THEN k ELSE 3

C27_CountsFollowMoveNumber ==
    LET n == accepted
        len_x == C27_Min3((n + 1) \div 2)
        len_o == C27_Min3(n \div 2)
    IN /\ legacy_game.total_moves = n
       /\ game.current_player = X <=> n % 2 = 0
       /\ legacy_game.current_player = X <=> n % 2 = 0
       /\ Len(game.move_history_x) = len_x
       /\ Len(game.move_history_o) = len_o
       /\ Len(legacy_game.player_moves[X]) = len_x
       /\ Len(legacy_game.player_moves[Y]) = len_o
       /\ Len(game.move_history_x) >= Len(game.move_history_o)
       /\ Len(game.move_history_x) - Len(game.move_history_o) <= 1
       /\ Len(legacy_game.player_moves[X]) >= Len(legacy_game.player_moves[Y])
       /\ Len(legacy_game.player_moves[X]) - Len(legacy_game.player_moves[Y]) <= 1

\* after 3 successful moves a fourth attempt has been rejected: the count
\* stays at 3, it is still the second player's turn, X holds 2 pieces and
\* the second player 1
C27_Witness ==
    /\ MoveRejected
    /\ accepted = 3
    /\ legacy_game.total_moves = 3
    /\ game.current_player = O /\ legacy_game.current_player = Y
    /\ Len(game.move_history_x) = 2 /\ Len(game.move_history_o) = 1

(***************************************************************************)
(* C28: no stuck state: in every reachable state whose outcome is          *)
(* in-progress at least 3 cells are empty, so there is a make_move(row,    *)
(* col) that the engine accepts for the current player.                    *)
(***************************************************************************)
C28_NoStuckState ==
    /\ game.state = IN_PROGRESS =>
          /\ Cardinality(Marked(game.board, EMPTY)) >= 3
          /\ \E row, col \in Idx :
                /\ is_valid_move(game, row, col)
                /\ make_move(game, row, col).ret = TRUE
    /\ legacy_game.game_status = ONGOING =>
          /\ Cardinality(Marked(legacy_game.board, NONE)) >= 3
          /\ \E row, col \in Idx :
                legacy_make_move(legacy_game, row, col).result.success

\* the fullest board play can reach, 6 pieces and 3 empty cells, with the
\* game still going on after a move was accepted
C28_Witness ==
    /\ MoveAccepted
    /\ game.state = IN_PROGRESS
    /\ legacy_game.game_status = ONGOING
    /\ Cardinality(Marked(game.board, EMPTY)) = 3
    /\ Cardinality(Marked(legacy_game.board, NONE)) = 3
    /\ accepted = 7

(***************************************************************************)
(* C29: a game can only conclude on or after the 5th successful move since *)
(* the last reset, and whenever the outcome is a player's win, that        *)
(* player's history has exactly 3 entries whose coordinates are exactly    *)
(* the three cells of one row, column or diagonal.                         *)
(***************************************************************************)
C29_ConcludesFromFifthMoveOnALine ==
    /\ game.state # IN_PROGRESS => accepted >= 5
    /\ legacy_game.game_status # ONGOING => legacy_game.total_moves >= 5
    /\ accepted < 5 => game.state = IN_PROGRESS
    /\ \A p \in {X, O} :
          game.state = WinState(p) =>
             /\ Len(Hist(game, p)) = 3
             /\ Range(Hist(game, p)) \in RefLines
    /\ \A p \in {X, Y} :
          legacy_game.game_status = LegacyWinStatus(p) =>
             /\ Len(legacy_game.player_moves[p]) = 3
             /\ Range(legacy_game.player_moves[p]) \in RefLines

\* the earliest conclusion: X's third piece, the 5th successful move,
\* completes a line and X wins in both engines
C29_Witness ==
    /\ MoveAccepted
    /\ accepted = 5
    /\ game.state = X_WINS
    /\ legacy_game.game_status = "X_wins"
    /\ Range(game.move_history_x) \in RefLines
    /\ Len(placed[X]) = 3

(***************************************************************************)
(* C30: piece lifetime: a piece placed by player P stays on its cell,      *)
(* marked with P's symbol, through every later operation other than reset  *)
(* (opponent moves, rejected moves, P's next two successful moves) and is  *)
(* removed exactly during P's third successful move after the one that     *)
(* placed it; no piece is removed or overwritten in any other way.         *)
(***************************************************************************)
\* one make_move step seen from a cell of the canonical board: a piece
\* stays as it is, unless it is the mover's third-last placement and the
\* move is accepted, and then the cell becomes empty
C30_CanonStep ==
    LET p == game.current_player
        k == Len(placed[p])
    IN \A pos \in Cells :
          At(game.board, pos) # EMPTY =>
             IF ret' = TRUE /\ k >= 3 /\ placed[p][k - 2] = pos
             THEN /\ At(game.board, pos) = p
                  /\ At(game'.board, pos) = EMPTY
             ELSE At(game'.board, pos) = At(game.board, pos)

\* the same step on the legacy board
C30_LegacyStep ==
    LET p == legacy_game.current_player
        k == Len(placed[IF p = Y THEN O ELSE X])
        own == placed[IF p = Y THEN O ELSE X]
    IN \A pos \in Cells :
          At(legacy_game.board, pos) # NONE =>
             IF result'.success /\ k >= 3 /\ own[k - 2] = pos
             THEN /\ At(legacy_game.board, pos) = p
                  /\ At(legacy_game'.board, pos) = NONE
             ELSE At(legacy_game'.board, pos) = At(legacy_game.board, pos)

\* an accepted move of P removes P's third-last placement when there is
\* one and nothing otherwise; P's last two placements and the new piece
\* are on the board afterwards
C30_AcceptedStep ==
    ret' = TRUE =>
       LET p == game.current_player
           k == Len(placed[p])
       IN /\ placed'[p] = Append(placed[p], placed'[p][k + 1])
          /\ result'.removed_piece =
                (IF k >= 3 THEN placed[p][k - 2] ELSE NoPiece)
          /\ \A i \in 1..(k + 1) :
                i >= k - 1 => At(game'.board, placed'[p][i]) = p
          /\ k >= 3 => At(game'.board, placed[p][k - 2]) = EMPTY

C30_PieceLifetime ==
    [][last_call' = "make_move" =>
          C30_CanonStep /\ C30_LegacyStep /\ C30_AcceptedStep]_vars

\* X's fourth piece has been accepted as the 7th move: X's first piece,
\* which outlived three moves of the opponent and two of X, is gone, and
\* X's second, third and fourth pieces and the opponent's three are all on
\* the board
C30_Witness ==
    /\ MoveAccepted
    /\ accepted = 7
    /\ At(game.board, placed[X][1]) = EMPTY
    /\ At(legacy_game.board, placed[X][1]) = NONE
    /\ \A i \in 2..4 : At(game.board, placed[X][i]) = X
    /\ \A i \in 1..3 : /\ At(game.board, placed[O][i]) = O
                       /\ At(legacy_game.board, placed[O][i]) = Y

(***************************************************************************)
(* The Flask server (Back-End-Game-Logic/flask_app.py) under concurrent    *)
(* requests.  app.run() starts the development server, which handles each  *)
(* request in a thread of its own; the handlers call the methods of the    *)
(* one global game and take no lock.  The interpreter can switch threads   *)
(* between any two bytecodes (CPython up to 3.9) or after calls and at     *)
(* loop back edges (3.10 and later), so a step here is one access to       *)
(* shared data: one load or store of an attribute of the game, or one      *)
(* read or write inside a list the game holds.  The steps carry the line   *)
(* numbers of game_logic_main.py.                                          *)
(*                                                                         *)
(* reset_game binds self.board and self.player_moves to new objects, and   *)
(* a thread that loaded the old object goes on using it, so the objects    *)
(* have identities: request.boards and request.moves hold them,            *)
(* request.self_board and request.self_moves say which ones the game       *)
(* refers to, and request.thread holds every thread's position and local   *)
(* values.  legacy_game is the global game as a request reads it.          *)
(***************************************************************************)
Threads == 1..MaxThreads

\* the six accepted moves that bring a fresh game to a position where both
\* players hold 3 pieces and the game goes on
FlaskOpening ==
    << <<0, 0>>, <<1, 1>>, <<0, 1>>, <<0, 2>>, <<2, 0>>, <<1, 0>> >>

\* four accepted moves after which X, to move, holds (1,0) and (1,1)
FlaskRowOpening == << <<1, 0>>, <<0, 0>>, <<1, 1>>, <<2, 2>> >>

RECURSIVE PlayAll(_, _)
\* g after make_move has been called with each entry of the list in turn
PlayAll(g, list) ==
    IF list = <<>> THEN g
    ELSE PlayAll(legacy_make_move(g, list[1][1], list[1][2]).self, Tail(list))

FlaskMidGame == PlayAll(LegacyNewGame, FlaskOpening)

FlaskBeforeWin == PlayAll(LegacyNewGame, FlaskRowOpening)

\* object 0 is the board (the dict of lists) the game starts with, object t
\* the one the reset handled by thread t creates
ObjIds == 0..MaxThreads
NoRef == -1

\* {'X': [], 'Y': []}
NoMoves == [p \in {X, Y} |-> <<>>]

\* a thread that has no request: its position, the row and col of its
\* request, the status code of its response and its local values
IdleThread ==
    [pc |-> "idle", row |-> 0, col |-> 0, code |-> 0,
     board |-> NoRef, moves |-> NoRef, player |-> NONE, total |-> 0,
     old |-> NoPiece, x |-> NONE, line |-> 0, k |-> 0, winner |-> NONE]

\* a thread whose response, with this status code, has been sent
DoneThread(code) == [IdleThread EXCEPT !.pc = "done", !.code = code]

\* the objects of the game g, no request being handled
FlaskObjects(g) ==
    [op |-> "threads",
     thread |-> [t \in Threads |-> IdleThread],
     boards |-> [id \in ObjIds |-> IF id = 0 THEN g.board
                                   ELSE LegacyEmptyBoard],
     moves |-> [id \in ObjIds |-> IF id = 0 THEN g.player_moves ELSE NoMoves],
     self_board |-> 0,
     self_moves |-> 0]

InitFlask ==
    /\ legacy_game \in {LegacyNewGame, FlaskMidGame, FlaskBeforeWin}
    /\ request = FlaskObjects(legacy_game)
    /\ game = NewGame
    /\ ret = NONE
    /\ result = [message |-> "init"]
    /\ last_call = "init"
    /\ accepted = 0
    /\ placed = [p \in {X, O} |-> <<>>]
    /\ games = NoGames
    /\ issued = {}
    /\ response = [status_code |-> 0]

\* an object that neither the game nor a thread refers to is gone
Collect(req) ==
    LET live_boards == {req.self_board} \cup
                          {req.thread[t].board : t \in Threads}
        live_moves == {req.self_moves} \cup
                          {req.thread[t].moves : t \in Threads}
    IN [req EXCEPT
          !.boards = [id \in ObjIds |-> IF id \in live_boards THEN @[id]
                                        ELSE LegacyEmptyBoard],
          !.moves = [id \in ObjIds |-> IF id \in live_moves THEN @[id]
                                       ELSE NoMoves]]

\* thread t, being at pc, runs one step: the objects and the threads become
\* req, and the attributes of the game those of g
Run(t, pc, req, g) ==
    /\ request.thread[t].pc = pc
    /\ request' = Collect(req)
    /\ legacy_game' =
          [g EXCEPT !.board = request'.boards[request'.self_board],
                    !.player_moves = request'.moves[request'.self_moves]]
    /\ UNCHANGED <<game, ret, result, last_call, accepted, placed>>
    /\ UNCHANGED <<games, issued, response>>

\* a step of thread t that changes its local values only
Local(t, pc, my) == Run(t, pc, [request EXCEPT !.thread[t] = my], legacy_game)

\* POST /game/move arrives with {row, col}: the handler parses the body and
\* calls game.make_move(row, col)
StartMove(t, row, col) ==
    Local(t, "idle", [IdleThread EXCEPT !.pc = "74", !.row = row, !.col = col])

\* POST /game/reset arrives: the handler calls game.reset_game()
StartReset(t) == Local(t, "idle", [IdleThread EXCEPT !.pc = "207"])

\* line 74: if not self._is_valid_position(row, col); the handler answers a
\* failed move 400
CheckPosition(t) ==
    LET my == request.thread[t]
    IN IF ~ is_valid_position(my.row, my.col)
       THEN Local(t, "74", DoneThread(400))
       ELSE Local(t, "74", [my EXCEPT !.pc = "82_board"])

\* where a thread goes on after it has loaded self.board
AfterBoard ==
    [pc \in {"82_board", "98_board", "107_board", "153_board", "check_board",
             "184_board"} |->
        CASE pc = "82_board" -> "82_cell"
          [] pc = "98_board" -> "98_store"
          [] pc = "107_board" -> "107_store"
          [] pc = "153_board" -> "check_cell"
          [] pc = "check_board" -> "check_cell"
          [] pc = "184_board" -> "186_cell"]

\* LOAD_ATTR board: the list self.board refers to now.  _check_winner and
\* _is_board_full start their loops with it
LoadBoard(t) ==
    LET my == request.thread[t]
    IN /\ my.pc \in DOMAIN AfterBoard
       /\ Local(t, my.pc,
                [my EXCEPT !.pc = AfterBoard[my.pc],
                           !.board = request.self_board,
                           !.line = IF my.pc = "153_board" THEN 1 ELSE @,
                           !.k = IF my.pc \in {"153_board", "184_board"}
                                 THEN 1 ELSE @])

\* where a thread goes on after it has loaded self.player_moves
AfterMoves ==
    [pc \in {"99_moves", "104_moves", "106_moves", "46_moves", "47_moves"} |->
        CASE pc = "99_moves" -> "99_player"
          [] pc = "104_moves" -> "104_player"
          [] pc = "106_moves" -> "106_player"
          [] pc = "46_moves" -> "46_len"
          [] pc = "47_moves" -> "47_item"]

\* LOAD_ATTR player_moves: the dict self.player_moves refers to now
LoadMoves(t) ==
    LET my == request.thread[t]
    IN /\ my.pc \in DOMAIN AfterMoves
       /\ Local(t, my.pc, [my EXCEPT !.pc = AfterMoves[my.pc],
                                     !.moves = request.self_moves])

\* where a thread goes on after it has loaded self.current_player
AfterPlayer ==
    [pc \in {"98_player", "99_player", "104_player", "106_player",
             "119_player", "138_player"} |->
        CASE pc = "98_player" -> "98_board"
          [] pc = "99_player" -> "99_append"
          [] pc = "104_player" -> "104_len"
          [] pc = "106_player" -> "106_pop"
          [] pc = "119_player" -> "119_store"
          [] pc = "138_player" -> "46_moves"]

\* LOAD_ATTR current_player (in the handler, line 138: game.current_player)
LoadPlayer(t) ==
    LET my == request.thread[t]
    IN /\ my.pc \in DOMAIN AfterPlayer
       /\ Local(t, my.pc, [my EXCEPT !.pc = AfterPlayer[my.pc],
                                     !.player = legacy_game.current_player])

\* line 82: if self.board[row][col] is not None, the cell being read in the
\* list loaded before
Occupied(t) ==
    LET my == request.thread[t]
    IN /\ my.pc = "82_cell"
       /\ IF request.boards[my.board][my.row][my.col] # NONE
          THEN Local(t, "82_cell", DoneThread(400))
          ELSE Local(t, "82_cell", [my EXCEPT !.pc = "90", !.board = NoRef])

\* line 90: if self.game_status != 'ongoing'
Concluded(t) ==
    LET my == request.thread[t]
    IN IF legacy_game.game_status # ONGOING
       THEN Local(t, "90", DoneThread(400))
       ELSE Local(t, "90", [my EXCEPT !.pc = "98_player"])

\* line 98: the store of self.board[row][col] = self.current_player, the
\* player and the list loaded before
Place(t) ==
    LET my == request.thread[t]
    IN Run(t, "98_store",
           [request EXCEPT
              !.boards[my.board] = SetCell(@, my.row, my.col, my.player),
              !.thread[t] = [my EXCEPT !.pc = "99_moves", !.board = NoRef,
                                       !.player = NONE]],
           legacy_game)

\* line 99: the append of self.player_moves[self.current_player].append(...)
AppendMove(t) ==
    LET my == request.thread[t]
    IN Run(t, "99_append",
           [request EXCEPT
              !.moves[my.moves][my.player] = Append(@, <<my.row, my.col>>),
              !.thread[t] = [my EXCEPT !.pc = "100_load", !.moves = NoRef,
                                       !.player = NONE]],
           legacy_game)

\* line 100, self.total_moves += 1: the load
LoadTotal(t) ==
    LET my == request.thread[t]
    IN Local(t, "100_load", [my EXCEPT !.pc = "100_store",
                                       !.total = legacy_game.total_moves])

\* line 100: the store
CountMove(t) ==
    LET my == request.thread[t]
    IN Run(t, "100_store",
           [request EXCEPT !.thread[t] =
               [my EXCEPT !.pc = "104_moves", !.total = 0]],
           [legacy_game EXCEPT !.total_moves = my.total + 1])

\* line 104: if len(self.player_moves[self.current_player]) > 3
TestLength(t) ==
    LET my == request.thread[t]
    IN Local(t, "104_len",
             [my EXCEPT !.pc = IF Len(request.moves[my.moves][my.player]) > 3
                               THEN "106_moves" ELSE "153_board",
                        !.moves = NoRef, !.player = NONE])

\* line 106: old_row, old_col = self.player_moves[self.current_player].pop(0);
\* pop(0) on an empty list raises IndexError, which the handler
\* (flask_app.py 151-155) answers 500
Trim(t) ==
    LET my == request.thread[t]
        list == request.moves[my.moves][my.player]
    IN /\ my.pc = "106_pop"
       /\ IF list = <<>>
          THEN Local(t, "106_pop", DoneThread(500))
          ELSE Run(t, "106_pop",
                   [request EXCEPT
                      !.moves[my.moves][my.player] = Tail(list),
                      !.thread[t] = [my EXCEPT !.pc = "107_board",
                                               !.old = list[1],
                                               !.moves = NoRef,
                                               !.player = NONE]],
                   legacy_game)

\* line 107: the store of self.board[old_row][old_col] = None
ClearOldest(t) ==
    LET my == request.thread[t]
    IN Run(t, "107_store",
           [request EXCEPT
              !.boards[my.board] = SetCell(@, my.old[1], my.old[2], NONE),
              !.thread[t] = [my EXCEPT !.pc = "153_board", !.board = NoRef,
                                       !.old = NoPiece]],
           legacy_game)

\* _check_winner looks at line my.line (rows, columns, diagonals as in Lines)
\* with up to five reads: the first, second and third cell for the chained
\* ==, the first again for "is not None" and once more for the return.  The
\* rows are read in the list the loop of line 153 started with; every read
\* of a column or a diagonal loads self.board anew
CheckedCell(line, k) == Lines[line][IF k <= 3 THEN k ELSE 1]

\* the thread after line my.line has turned out not to be a winning one
NextLine(my) ==
    IF my.line = 8
    THEN [my EXCEPT !.pc = "184_board", !.board = NoRef, !.x = NONE,
                    !.line = 0, !.k = 0]
    ELSE [my EXCEPT !.pc = IF my.line + 1 <= 3 THEN "check_cell"
                           ELSE "check_board",
                    !.board = IF my.line + 1 <= 3 THEN @ ELSE NoRef,
                    !.x = NONE, !.line = @ + 1, !.k = 1]

\* the thread going on to the next read of its line
NextRead(my, v) ==
    [my EXCEPT !.pc = IF my.line <= 3 THEN "check_cell" ELSE "check_board",
               !.board = IF my.line <= 3 THEN @ ELSE NoRef,
               !.x = IF my.k <= 2 THEN v ELSE NONE,
               !.k = @ + 1]

\* lines 153-171: one read of a cell in _check_winner; lines 111-114: a
\* winner that is not None is written to game_status, else _is_board_full
\* is called
CheckCell(t) ==
    LET my == request.thread[t]
        v == At(request.boards[my.board], CheckedCell(my.line, my.k))
    IN Local(t, "check_cell",
             IF my.k = 1 THEN NextRead(my, v)
             ELSE IF my.k \in {2, 3}
                  THEN IF my.x = v THEN NextRead(my, v) ELSE NextLine(my)
             ELSE IF my.k = 4
                  THEN IF v # NONE THEN NextRead(my, v) ELSE NextLine(my)
             ELSE [my EXCEPT !.pc = IF v # NONE THEN "113" ELSE "184_board",
                             !.board = NoRef, !.x = NONE, !.line = 0,
                             !.k = 0, !.winner = v])

\* the cells in the order _is_board_full reads them
FullOrder(k) == <<(k - 1) \div 3, (k - 1) % 3>>

\* lines 184-188: one read of a cell in _is_board_full, in the list its
\* loop started with; line 114: a full board without a winner is a draw
FullCell(t) ==
    LET my == request.thread[t]
        v == At(request.boards[my.board], FullOrder(my.k))
    IN Local(t, "186_cell",
             IF v = NONE
             THEN [my EXCEPT !.pc = "119_player", !.board = NoRef, !.k = 0]
             ELSE IF my.k = 9
                  THEN [my EXCEPT !.pc = "116", !.board = NoRef, !.k = 0]
             ELSE [my EXCEPT !.k = @ + 1])

\* line 113: self.game_status = f'{winner}_wins'; line 116:
\* self.game_status = 'draw'
StoreStatus(t) ==
    LET my == request.thread[t]
    IN /\ my.pc \in {"113", "116"}
       /\ Run(t, my.pc,
              [request EXCEPT !.thread[t] =
                  [my EXCEPT !.pc = "119_player", !.winner = NONE]],
              [legacy_game EXCEPT !.game_status =
                  IF my.pc = "113" THEN WinsStatus(my.winner)
                  ELSE LEGACY_DRAW])

\* line 119: the store of self.current_player = 'Y' if self.current_player
\* == 'X' else 'X'.  The dict of line 121 reads the game without changing
\* it; the handler goes on to line 138
Switch(t) ==
    LET my == request.thread[t]
    IN Run(t, "119_store",
           [request EXCEPT !.thread[t] =
               [my EXCEPT !.pc = "138_player", !.player = NONE]],
           [legacy_game EXCEPT !.current_player =
               IF my.player = X THEN Y ELSE X])

\* flask_app.py 142, get_oldest_piece_for_player(next_player), line 46:
\* len(self.player_moves[player]) > 0; None is returned for an empty list
\* and the move is answered 200
OldestLength(t) ==
    LET my == request.thread[t]
    IN /\ my.pc = "46_len"
       /\ IF Len(request.moves[my.moves][my.player]) > 0
          THEN Local(t, "46_len",
                     [my EXCEPT !.pc = "47_moves", !.moves = NoRef])
          ELSE Local(t, "46_len", DoneThread(200))

\* line 47: return self.player_moves[player][0]; [0] on an empty list raises
\* IndexError, which the handler answers 500, else the move is answered 200
OldestItem(t) ==
    LET my == request.thread[t]
    IN Local(t, "47_item",
             IF request.moves[my.moves][my.player] = <<>>
             THEN DoneThread(500) ELSE DoneThread(200))

\* line 207: self.board = [[None for _ in range(3)] for _ in range(3)]
ResetBoard(t) ==
    LET my == request.thread[t]
    IN Run(t, "207",
           [request EXCEPT !.boards[t] = LegacyEmptyBoard,
                           !.self_board = t,
                           !.thread[t] = [my EXCEPT !.pc = "208"]],
           legacy_game)

\* line 208: self.player_moves = {'X': [], 'Y': []}
ResetPlayerMoves(t) ==
    LET my == request.thread[t]
    IN Run(t, "208",
           [request EXCEPT !.moves[t] = NoMoves,
                           !.self_moves = t,
                           !.thread[t] = [my EXCEPT !.pc = "209"]],
           legacy_game)

\* line 209: self.current_player = 'X'
ResetCurrentPlayer(t) ==
    LET my == request.thread[t]
    IN Run(t, "209", [request EXCEPT !.thread[t] = [my EXCEPT !.pc = "210"]],
           [legacy_game EXCEPT !.current_player = X])

\* line 210: self.game_status = 'ongoing'
ResetGameStatus(t) ==
    LET my == request.thread[t]
    IN Run(t, "210", [request EXCEPT !.thread[t] = [my EXCEPT !.pc = "211"]],
           [legacy_game EXCEPT !.game_status = ONGOING])

\* line 211: self.total_moves = 0; the dict of line 213 and the handler read
\* the game without changing it, and the reset is answered 200
ResetTotalMoves(t) ==
    Run(t, "211", [request EXCEPT !.thread[t] = DoneThread(200)],
        [legacy_game EXCEPT !.total_moves = 0])

NextFlask ==
    \/ \E t \in Threads, row \in Coord, col \in Coord : StartMove(t, row, col)
    \/ \E t \in Threads : StartReset(t)
    \/ \E t \in Threads : CheckPosition(t)
    \/ \E t \in Threads : LoadBoard(t)
    \/ \E t \in Threads : LoadMoves(t)
    \/ \E t \in Threads : LoadPlayer(t)
    \/ \E t \in Threads : Occupied(t)
    \/ \E t \in Threads : Concluded(t)
    \/ \E t \in Threads : Place(t)
    \/ \E t \in Threads : AppendMove(t)
    \/ \E t \in Threads : LoadTotal(t)
    \/ \E t \in Threads : CountMove(t)
    \/ \E t \in Threads : TestLength(t)
    \/ \E t \in Threads : Trim(t)
    \/ \E t \in Threads : ClearOldest(t)
    \/ \E t \in Threads : CheckCell(t)
    \/ \E t \in Threads : FullCell(t)
    \/ \E t \in Threads : StoreStatus(t)
    \/ \E t \in Threads : Switch(t)
    \/ \E t \in Threads : OldestLength(t)
    \/ \E t \in Threads : OldestItem(t)
    \/ \E t \in Threads : ResetBoard(t)
    \/ \E t \in Threads : ResetPlayerMoves(t)
    \/ \E t \in Threads : ResetCurrentPlayer(t)
    \/ \E t \in Threads : ResetGameStatus(t)
    \/ \E t \in Threads : ResetTotalMoves(t)

SpecFlask == InitFlask /\ [][NextFlask]_vars

(***************************************************************************)
(* C22: the Flask request handlers serialize operations on the single      *)
(* global game: the steps of one move (validate, place, trim oldest,       *)
(* evaluate winner, switch turn) are never interleaved with those of       *)
(* another in-flight move or reset request, so board/history consistency   *)
(* and history length <= 3 hold in every state a request can observe.      *)
(***************************************************************************)
\* thread t has run some statement of make_move or reset_game and has not
\* run the last one
C22_Inside(t) ==
    request.thread[t].pc \notin {"idle", "74", "207", "done"}

\* what GET /game/state would answer now
C22_Observed == legacy_get_game_state(legacy_game).ret

C22_FlaskSerializesOperations ==
    /\ \A t, u \in Threads : t # u => ~ (C22_Inside(t) /\ C22_Inside(u))
    /\ \A p \in {X, Y} :
          /\ Marked(C22_Observed.board, p) = Range(C22_Observed.player_moves[p])
          /\ Len(C22_Observed.player_moves[p]) <= 3

(***************************************************************************)
(* Play that goes on: the players keep calling make_move of the canonical  *)
(* engine with moves it accepts, and neither completes a line.  Nothing    *)
(* bounds the number of moves; accepted counts them up to MaxForever and   *)
(* then stays.  The players never stop while such a move exists (weak      *)
(* fairness on the move).  The legacy engine counts its moves without      *)
(* bound in total_moves and is left out of the steps; it is taken through  *)
(* the same moves as a function (C31_LegacyPlay).                          *)
(***************************************************************************)
ForeverMove(row, col) ==
    LET r == make_move(game, row, col)
    IN /\ r.ret = TRUE
       /\ r.self.state = IN_PROGRESS
       /\ game' = r.self
       /\ ret' = r.ret
       /\ last_call' = "make_move"
       /\ accepted' = IF accepted < MaxForever THEN accepted + 1 ELSE accepted
       /\ UNCHANGED <<legacy_game, result, placed>>
       /\ UNCHANGED api_vars

NextForever == \E row \in Idx, col \in Idx : ForeverMove(row, col)

\* Play starts on a new game on which one call was made and rejected (a cell
\* outside the board): the game is untouched and the returned flag is False,
\* so the flag is a Boolean in every state of the play.
InitForever ==
    LET r == make_move(NewGame, 3, 3)
    IN /\ game = r.self
       /\ ret = r.ret
       /\ last_call = "make_move"
       /\ legacy_game = LegacyNewGame
       /\ result = [message |-> "init"]
       /\ accepted = 0
       /\ placed = [p \in {X, O} |-> <<>>]
       /\ games = NoGames
       /\ issued = {}
       /\ request = [op |-> "none"]
       /\ response = [status_code |-> 0]

SpecForever == InitForever /\ [][NextForever]_vars /\ WF_game(NextForever)

(***************************************************************************)
(* C31: play is not guaranteed to end: even if the players keep making     *)
(* accepted moves forever, the outcome need not ever leave in-progress,    *)
(* because there are reachable cycles of accepted moves that return to an  *)
(* earlier in-progress state (same board, histories and current player)    *)
(* without any win.                                                        *)
(***************************************************************************)
\* eight moves, four of each player, that take the position after
\* FlaskOpening back to itself
C31_Cycle ==
    << <<1, 2>>, <<2, 2>>, <<0, 0>>, <<1, 1>>,
       <<0, 1>>, <<0, 2>>, <<2, 0>>, <<1, 0>> >>

RECURSIVE C31_Play(_, _)
\* the canonical engine after make_move was called with each entry of the
\* list, and whether every call was accepted and left the game in progress
C31_Play(g, list) ==
    IF list = <<>> THEN [ok |-> TRUE, self |-> g]
    ELSE LET r == make_move(g, list[1][1], list[1][2])
             rest == C31_Play(r.self, Tail(list))
         IN [ok |-> r.ret /\ r.self.state = IN_PROGRESS /\ rest.ok,
             self |-> rest.self]

RECURSIVE C31_LegacyPlay(_, _)
\* the same for the legacy engine
C31_LegacyPlay(g, list) ==
    IF list = <<>> THEN [ok |-> TRUE, self |-> g]
    ELSE LET l == legacy_make_move(g, list[1][1], list[1][2])
             rest == C31_LegacyPlay(l.self, Tail(list))
         IN [ok |-> l.result.success /\ l.self.game_status = ONGOING
                       /\ rest.ok,
             self |-> rest.self]

\* the position after the six moves of FlaskOpening, in the canonical engine
C31_Start == C31_Play(NewGame, FlaskOpening).self

\* from C31_Start the eight moves of C31_Cycle are all accepted, none ends
\* the game, and the engine is back in C31_Start; the legacy engine is back
\* in the same position with total_moves 8 higher
C31_CycleReturns ==
    /\ C25_SameGame(C31_Start, FlaskMidGame)
    /\ game = C31_Start =>
          LET c == C31_Play(game, C31_Cycle)
          IN c.ok /\ c.self = game
    /\ LET l == C31_LegacyPlay(FlaskMidGame, C31_Cycle)
       IN /\ l.ok
          /\ l.self = [FlaskMidGame EXCEPT !.total_moves = @ + Len(C31_Cycle)]

C31_PlayNeedNotEnd ==
    /\ [](game.state = IN_PROGRESS)
    /\ []<><<NextForever>>_game
    /\ []C31_CycleReturns

\* the engine is in the position that the six opening moves first produce,
\* after more than six accepted moves: play has come back to it
C31_Witness ==
    /\ game = C31_Start
    /\ accepted > Len(FlaskOpening)
    /\ game.state = IN_PROGRESS
    /\ Len(game.move_history_x) = 3 /\ Len(game.move_history_o) = 3

====
